---- MODULE Spec2Model ----
\* OpenPubkey: the provider verification pipeline (verifier/providerverifier.go),
\* the MFA cosigner (cosigner/authcosigner.go), called one call at a time and
\* by concurrent goroutines, and the issuance of a PK token by the client
\* (OpkClient.OidcAuth) as state machines.
EXTENDS Integers, Sequences, FiniteSets, TLC

\* ------------------------------------------------------------------ bounds

\* Longest list-valued "aud" claim that is enumerated.
MaxAudLen == 2

\* Number of InitAuth calls that get as far as CreateAuthID.
MaxAuthId == 2

\* Last minute of the cosigner's clock.
MaxTime == 3

\* Longest version (after the OpenSSH_ prefix) `sshd -V` prints.
MaxVerLen == 4

\* ------------------------------------------------------- program constants

AudPrefixForGQCommitment == "OPENPUBKEY-PKTOKEN:"

GQ256 == "GQ256"

RS256 == "RS256"

\* time.Since(...).Minutes() > 2, time.Until(...).Minutes() > 2
AuthWindowMinutes == 2

\* Issuer, KeyID and Alg the AuthCosigner was created with.
CosignerIssuer == "https://cosigner.example.com"

CosignerKeyID == "kid-cos"

CosignerAlg == "ES256"

\* ------------------------------------------------------------- JSON values
\* A decoded JSON value (Go's `any` after json.Unmarshal): a string, a list,
\* some other present value (a number stands for every non-string, non-list
\* value), or no value (the key is absent).  Unread marks a field of the
\* token that no step has decoded so far.

JString(str) == [t |-> "string", s |-> str, l |-> <<>>]

JNumber == [t |-> "number", s |-> "7", l |-> <<>>]

JAbsent == [t |-> "absent", s |-> "", l |-> <<>>]

JList(lst) == [t |-> "list", s |-> "", l |-> lst]

Unread == [t |-> "unread", s |-> "", l |-> <<>>]

\* strings.CutPrefix(s, prefix): the ok result.
HasPrefix(str, prefix) ==
    /\ Len(str) >= Len(prefix)
    /\ SubSeq(str, 1, Len(prefix)) = prefix

\* ---------------------------------------------------------- input domains

Issuers == {"https://accounts.example.com", "https://evil.com/"}

\* pkt.Issuer() returns an error.
IssErr == "iss-error"

ClientIDs == {"verifier", "verifier,other"}

CommitmentClaims == {"", "nonce", "evil"}

Verifiers ==
    [issuer : Issuers, commitmentClaim : CommitmentClaims, ClientID : ClientIDs,
     SkipClientIDCheck : BOOLEAN, SkipExpirationCheck : BOOLEAN, GQOnly : BOOLEAN,
     GQCommitment : BOOLEAN]

AudStrings == {"verifier", "verifier,other", AudPrefixForGQCommitment \o "verifier"}

AudElems == {JString("verifier"), JString("other"), JNumber}

AudLists == UNION {[1..n -> AudElems] : n \in 0..MaxAudLen}

Auds == {JAbsent, JNumber} \cup {JString(str) : str \in AudStrings}
            \cup {JList(lst) : lst \in AudLists}

\* The alg of the Op protected header; NoAlg: the header has none.
NoAlg == "no-alg"

Algs == {RS256, GQ256, "ES256", NoAlg}

\* The original JWT headers kept in a GQ token: their alg, or undecodable.
OrigAlgs == {RS256, "ES256", "malformed"}

\* Provider keys.  The Op signature was made with one of the RSA keys, or is
\* corrupted (made with no key at all).
RSAKeys == {"K1", "K2"}

Signers == RSAKeys \cup {"corrupted"}

\* What DiscoverPublicKey.ByToken answers: an RSA key, a key of another
\* type, or an error.
FinderResults == RSAKeys \cup {"ECKey", "NoKey"}

\* The commitment cic.Hash() of a client instance.
CicHashes == {"h1", "h2"}

CommitmentValues == {JAbsent, JNumber} \cup {JString(h) : h \in CicHashes}

ClaimNames == {"nonce", "evil"}

Payloads == [nonce : CommitmentValues, evil : {JAbsent, JString("h1")}]

UnreadClaims == [nonce |-> Unread, evil |-> Unread]

\* The exp and iat claims of the ID token against the clock of the verifier:
\* exp later than now and iat not later than now, exp passed, or iat still
\* to come.
Validities == {"current", "expired", "future"}

VARIABLES
    v,            \* the DefaultProviderVerifier: issuer, commitmentClaim, options
    pkt,          \* the PK token under verification, as far as it has been decoded
    pc,           \* position of the VerifyProvider call
    result,       \* "running", "ok", "error" or "panic"
    err,          \* the error returned ("" while running or on success)
    foundKey,     \* answer of the key finder, "notcalled" before discovery
    sigVerified,  \* a provider signature verification has succeeded
    AuthIdIter,   \* AuthCosigner.AuthIdIter
    AuthStateMap, \* AuthCosigner.AuthStateMap: auth_id -> AuthState
    AuthCodeMap,  \* AuthCosigner.AuthCodeMap: authcode -> auth_id
    now,          \* the cosigner's clock, in minutes
    out,          \* what the last cosigner operation returned
    redeemed,     \* the authcodes for which RedeemAuthcode has succeeded
    client,       \* the OidcAuth call of the client: position and locals
    gpc,          \* position of each goroutine calling the cosigner
    gloc,         \* locals of each goroutine calling the cosigner
    sshd,         \* the OpenSSH version check: its input and its answer
    sshDir,       \* writeKeysToSSHDir: the files of ~/.ssh and the call
    verifyCmd,    \* the sshd verify command: its inputs, position and result
    opVerify      \* a VerifyPKToken call of an OpenID provider: inputs and result

verifierVars == <<v, pkt, pc, result, err, foundKey, sigVerified>>

cosignerVars == <<AuthIdIter, AuthStateMap, AuthCodeMap, now, out, redeemed>>

clientVars == <<client>>

goroutineVars == <<gpc, gloc>>

toolVars == <<sshd, sshDir, verifyCmd, opVerify>>

vars == <<verifierVars, cosignerVars, clientVars, goroutineVars, toolVars>>

\* ----------------------------------------------------------- VerifyProvider
\* One call of VerifyProvider on one token, step by step.  The payload of the
\* token is taken to be a JSON object (json.Unmarshal of it succeeds).

\* The goroutines that call one AuthCosigner concurrently.
Goroutines == {"g1", "g2"}

\* No OidcAuth call and no concurrent cosigner call is under way.
NoClient == [pc |-> "idle"]

NoGoroutines ==
    /\ gpc = [g \in Goroutines |-> "idle"]
    /\ gloc = [g \in Goroutines |-> [op |-> "none"]]

\* No command-line tool and no provider VerifyPKToken call is running.
NoSshd == sshd = [pc |-> "idle"]

NoSshDir == sshDir = [pc |-> "idle"]

NoVerifyCmd == verifyCmd = [pc |-> "idle"]

NoOpVerify == opVerify = [pc |-> "idle"]

NoTools == NoSshd /\ NoSshDir /\ NoVerifyCmd /\ NoOpVerify

NewPkt(iss) ==
    [iss |-> iss, aud |-> Unread, alg |-> "unread", origAlg |-> "unread",
     signedBy |-> "unread", claims |-> UnreadClaims, cicHdr |-> Unread,
     cic |-> "unread", cicHash |-> "unread", cicSig |-> "unread",
     validity |-> "unread"]

\* NewAuthCosigner: empty maps, counter at zero.
NewAuthCosigner ==
    /\ AuthIdIter = 0
    /\ AuthStateMap = <<>>
    /\ AuthCodeMap = <<>>
    /\ now = 0
    /\ out = [op |-> "none", res |-> "none"]
    /\ redeemed = {}

Init ==
    /\ v \in Verifiers
    /\ \E iss \in Issuers \cup {IssErr} : pkt = NewPkt(iss)
    /\ pc = "sanity"
    /\ result = "running"
    /\ err = ""
    /\ foundKey = "notcalled"
    /\ sigVerified = FALSE
    /\ NewAuthCosigner
    /\ client = NoClient
    /\ NoGoroutines
    /\ NoTools

\* return e
Return(e) ==
    /\ pc' = "done"
    /\ result' = (IF e = "nil" THEN "ok" ELSE IF e = "panic" THEN "panic" ELSE "error")
    /\ err' = (IF e = "nil" THEN "" ELSE e)

Goto(step) ==
    /\ pc' = step
    /\ UNCHANGED <<result, err>>

\* Mutant of SanityCheck: the third test inverted (GQCommitment refused when
\* SkipClientIDCheck is set).
SanityCheckNoSkip(vv) ==
    IF vv.GQCommitment
    THEN IF ~vv.GQOnly THEN "ErrGQCommitmentRequiresGQOnly"
         ELSE IF vv.commitmentClaim # "" THEN "ErrGQCommitmentRequiresEmptyClaim"
         ELSE IF vv.SkipClientIDCheck THEN "ErrGQCommitmentAudIsClientID"
         ELSE "nil"
    ELSE "nil"

\* The GQCommitment sanity check: the error it returns, "nil" if none.
SanityCheck(vv) ==
    IF vv.GQCommitment
    THEN IF ~vv.GQOnly THEN "ErrGQCommitmentRequiresGQOnly"
         ELSE IF vv.commitmentClaim # "" THEN "ErrGQCommitmentRequiresEmptyClaim"
         ELSE IF ~vv.SkipClientIDCheck THEN "ErrGQCommitmentAudIsClientID"
         ELSE "nil"
    ELSE "nil"

Sanity ==
    /\ pc = "sanity"
    /\ IF SanityCheck(v) # "nil" THEN Return(SanityCheck(v)) ELSE Goto("audience")
    /\ UNCHANGED <<v, pkt, foundKey, sigVerified, cosignerVars, clientVars, goroutineVars, toolVars>>

RECURSIVE AudienceLoop(_, _)
\* for _, audience := range aud { if audience.(string) == clientID { return nil } }
AudienceLoop(lst, clientID) ==
    IF lst = <<>> THEN "ErrAudience"
    ELSE IF Head(lst).t # "string" THEN "panic"
    ELSE IF Head(lst).s = clientID THEN "nil"
    ELSE AudienceLoop(Tail(lst), clientID)

RECURSIVE JoinAud(_)
\* strings.Join(audList, ",")
JoinAud(lst) ==
    IF lst = <<>> THEN ""
    ELSE IF Len(lst) = 1 THEN Head(lst).s
    ELSE Head(lst).s \o "," \o JoinAud(Tail(lst))

VerifyAudience(aud, clientID) ==
    CASE aud.t = "string" -> (IF aud.s # clientID THEN "ErrAudience" ELSE "nil")
      [] aud.t = "list" -> AudienceLoop(aud.l, clientID)
      [] OTHER -> "ErrMissingAudience"

Audience ==
    /\ pc = "audience"
    /\ \E aud \in Auds :
         LET e == VerifyAudience(aud, v.ClientID) IN
         /\ pkt' = [pkt EXCEPT !.aud = aud]
         /\ IF e = "panic" THEN Return("panic")
            ELSE IF e # "nil" /\ ~v.SkipClientIDCheck THEN Return(e)
            ELSE Goto("algorithm")
    /\ UNCHANGED <<v, foundKey, sigVerified, cosignerVars, clientVars, goroutineVars, toolVars>>

\* Mutant of AlgorithmCheck: the GQOnly test is missing.
AlgorithmCheckNoGQOnly(vv, alg) ==
    IF alg = NoAlg THEN "ErrAlgorithmMissing" ELSE "nil"

\* alg, ok := pkt.ProviderAlgorithm() and the GQOnly test that follows it.
AlgorithmCheck(vv, alg) ==
    IF alg = NoAlg THEN "ErrAlgorithmMissing"
    ELSE IF alg # GQ256 /\ vv.GQOnly THEN "ErrNonGQUnsupported"
    ELSE "nil"

Algorithm ==
    /\ pc = "algorithm"
    /\ \E alg \in Algs :
         /\ pkt' = [pkt EXCEPT !.alg = alg]
         /\ IF AlgorithmCheck(v, alg) # "nil"
            THEN Return(AlgorithmCheck(v, alg))
            ELSE Goto("signature")
    /\ UNCHANGED <<v, foundKey, sigVerified, cosignerVars, clientVars, goroutineVars, toolVars>>

\* Mutant of SignatureVerifies: any well-formed signature is taken, whatever
\* key the finder returned.
SignatureVerifiesAnyKey(signer, key) ==
    /\ key \in RSAKeys
    /\ signer \in RSAKeys

\* jws.Verify / gq.GQ256VerifyJWT on the Op token under `key`: the signature
\* verifies exactly when it was made with that RSA key.
SignatureVerifies(signer, key) ==
    /\ key \in RSAKeys
    /\ signer = key

\* if pktIssuer != v.issuer
IssuerMatches(p, vv) == p.iss = vv.issuer

\* verifyGQSig on token p when the key finder answers `key`.
VerifyGQSig(vv, p, key) ==
    IF p.alg # GQ256 THEN "ErrNotGQ"
    ELSE IF p.origAlg = "malformed" THEN "ErrGQHeaders"
    ELSE IF p.origAlg # RS256 THEN "ErrGQOriginalAlg"
    ELSE IF p.iss = IssErr THEN "ErrIssuerMissing"
    ELSE IF ~IssuerMatches(p, vv) THEN "ErrIssuerMismatch"
    ELSE IF key = "NoKey" THEN "ErrKeyDiscovery"
    ELSE IF key \notin RSAKeys THEN "ErrNotRSAKey"
    ELSE IF ~SignatureVerifies(p.signedBy, key) THEN "ErrSignatureInvalid"
    ELSE "nil"

\* The RS256 case of the switch: providerPublicKey, then jws.Verify.
VerifyRS256Sig(vv, p, key) ==
    IF key = "NoKey" THEN "ErrKeyDiscovery"
    ELSE IF ~SignatureVerifies(p.signedBy, key) THEN "ErrSignatureInvalid"
    ELSE "nil"

\* The parts of the token and of the environment that verifyGQSig reads, in
\* the order it reads them: <<token, answer of the key finder>>.
GQSigReads(vv, p) ==
    {<<[p EXCEPT !.origAlg = o], "notcalled">> : o \in OrigAlgs \ {RS256}}
    \cup
    (IF p.iss = IssErr \/ ~IssuerMatches(p, vv)
     THEN {<<[p EXCEPT !.origAlg = RS256], "notcalled">>}
     ELSE {<<[p EXCEPT !.origAlg = RS256], k>> : k \in FinderResults \ RSAKeys}
          \cup {<<[p EXCEPT !.origAlg = RS256, !.signedBy = s], k>> :
                    s \in Signers, k \in RSAKeys})

RS256SigReads(p) ==
    {<<p, "NoKey">>}
    \cup {<<[p EXCEPT !.signedBy = s], k>> : s \in Signers, k \in FinderResults \ {"NoKey"}}

\* case gq.GQ256:
SignatureGQ ==
    /\ pc = "signature"
    /\ pkt.alg = GQ256
    /\ \E rd \in GQSigReads(v, pkt) :
         LET e == VerifyGQSig(v, rd[1], rd[2]) IN
         /\ pkt' = rd[1]
         /\ foundKey' = rd[2]
         /\ sigVerified' = (e = "nil")
         /\ IF e # "nil" THEN Return(e) ELSE Goto("commitment")
    /\ UNCHANGED <<v, cosignerVars, clientVars, goroutineVars, toolVars>>

\* case jwa.RS256:
SignatureRS256 ==
    /\ pc = "signature"
    /\ pkt.alg = RS256
    /\ \E rd \in RS256SigReads(pkt) :
         LET e == VerifyRS256Sig(v, rd[1], rd[2]) IN
         /\ pkt' = rd[1]
         /\ foundKey' = rd[2]
         /\ sigVerified' = (e = "nil")
         /\ IF e # "nil" THEN Return(e) ELSE Goto("commitment")
    /\ UNCHANGED <<v, cosignerVars, clientVars, goroutineVars, toolVars>>

\* The switch has no default case: any other alg leaves it with nothing done.
SignatureOther ==
    /\ pc = "signature"
    /\ pkt.alg \notin {GQ256, RS256}
    /\ Goto("commitment")
    /\ UNCHANGED <<v, pkt, foundKey, sigVerified, cosignerVars, clientVars, goroutineVars, toolVars>>

\* claims[name] of the decoded payload.
Claim(p, name) ==
    IF name \in DOMAIN p.claims THEN p.claims[name] ELSE JAbsent

\* if commitment != string(expectedCommitment): an `any` equals a string only
\* if it holds a string of the same value.
CommitmentEquals(commitment, expected) ==
    /\ commitment.t = "string"
    /\ commitment.s = expected

\* Mutant of VerifyCommitment: the claim name is fixed to "nonce" instead of
\* the configured commitmentClaim.
VerifyCommitmentNonceOnly(vv, p) ==
    IF p.cic # "ok" THEN "ErrCicValues"
    ELSE IF vv.GQCommitment
    THEN IF p.aud.t = "absent" THEN "ErrAudPrefixMissing"
         ELSE IF p.aud.t # "string" THEN "panic"
         ELSE IF ~HasPrefix(p.aud.s, AudPrefixForGQCommitment) THEN "ErrAudPrefix"
         ELSE IF p.cicHdr.t = "absent" THEN "ErrMissingGQCommitment"
         ELSE IF ~CommitmentEquals(p.cicHdr, p.cicHash) THEN "ErrCommitmentMismatch"
         ELSE "nil"
    ELSE IF Claim(p, "nonce").t = "absent" THEN "ErrMissingCommitmentClaim"
         ELSE IF ~CommitmentEquals(Claim(p, "nonce"), p.cicHash)
              THEN "ErrCommitmentMismatch"
         ELSE "nil"

\* Mutant of VerifyCommitment: under GQCommitment the aud prefix is not
\* required.
VerifyCommitmentNoPrefix(vv, p) ==
    IF p.cic # "ok" THEN "ErrCicValues"
    ELSE IF vv.GQCommitment
    THEN IF p.aud.t = "absent" THEN "ErrAudPrefixMissing"
         ELSE IF p.aud.t # "string" THEN "panic"
         ELSE IF p.cicHdr.t = "absent" THEN "ErrMissingGQCommitment"
         ELSE IF ~CommitmentEquals(p.cicHdr, p.cicHash) THEN "ErrCommitmentMismatch"
         ELSE "nil"
    ELSE IF Claim(p, vv.commitmentClaim).t = "absent" THEN "ErrMissingCommitmentClaim"
         ELSE IF ~CommitmentEquals(Claim(p, vv.commitmentClaim), p.cicHash)
              THEN "ErrCommitmentMismatch"
         ELSE "nil"

VerifyCommitment(vv, p) ==
    IF p.cic # "ok" THEN "ErrCicValues"
    ELSE IF vv.GQCommitment
    THEN IF p.aud.t = "absent" THEN "ErrAudPrefixMissing"
         ELSE IF p.aud.t # "string" THEN "panic"
         ELSE IF ~HasPrefix(p.aud.s, AudPrefixForGQCommitment) THEN "ErrAudPrefix"
         ELSE IF p.cicHdr.t = "absent" THEN "ErrMissingGQCommitment"
         ELSE IF ~CommitmentEquals(p.cicHdr, p.cicHash) THEN "ErrCommitmentMismatch"
         ELSE "nil"
    ELSE IF Claim(p, vv.commitmentClaim).t = "absent" THEN "ErrMissingCommitmentClaim"
         ELSE IF ~CommitmentEquals(Claim(p, vv.commitmentClaim), p.cicHash)
              THEN "ErrCommitmentMismatch"
         ELSE "nil"

\* The parts of the token that verifyCommitment decodes: the CIC, and when
\* the CIC is well formed the payload claims and (under GQCommitment) the cic
\* value of the GQ protected header.
CommitmentReads(vv, p) ==
    {[p EXCEPT !.cic = "malformed"]}
    \cup
    (IF vv.GQCommitment
     THEN {[p EXCEPT !.cic = "ok", !.cicHash = h, !.cicHdr = c, !.claims = n] :
               h \in CicHashes, c \in CommitmentValues, n \in Payloads}
     ELSE {[p EXCEPT !.cic = "ok", !.cicHash = h, !.claims = c] :
               h \in CicHashes, c \in Payloads})

Commitment ==
    /\ pc = "commitment"
    /\ \E p \in CommitmentReads(v, pkt) :
         /\ pkt' = p
         /\ IF VerifyCommitment(v, p) # "nil"
            THEN Return(VerifyCommitment(v, p))
            ELSE Goto("cicsig")
    /\ UNCHANGED <<v, foundKey, sigVerified, cosignerVars, clientVars, goroutineVars, toolVars>>

\* Mutant of VerifyCicSignature: the result of jws.Verify is dropped.
VerifyCicSignatureNoVerify(p) ==
    IF p.cic # "ok" THEN "ErrCicValues" ELSE "nil"

\* verifyCicSignature: jws.Verify of the CIC token under cic.PublicKey(), with
\* the algorithm cic.PublicKey().Algorithm().  cicSig is "valid" iff the CIC
\* JWS verifies under that key and algorithm.
VerifyCicSignature(p) ==
    IF p.cic # "ok" THEN "ErrCicValues"
    ELSE IF p.cicSig # "valid" THEN "ErrCicSignature"
    ELSE "nil"

\* The last step.  No step of VerifyProvider reads exp or iat (nor
\* options.SkipExpirationCheck); what they are is recorded when the call
\* ends.
CicSignature ==
    /\ pc = "cicsig"
    /\ \E sig \in {"valid", "invalid"}, val \in Validities :
         /\ pkt' = [pkt EXCEPT !.cicSig = sig, !.validity = val]
         /\ Return(VerifyCicSignature(pkt'))
    /\ UNCHANGED <<v, foundKey, sigVerified, cosignerVars, clientVars, goroutineVars, toolVars>>

VerifyProvider ==
    \/ Sanity
    \/ Audience
    \/ Algorithm
    \/ SignatureGQ
    \/ SignatureRS256
    \/ SignatureOther
    \/ Commitment
    \/ CicSignature

Next == VerifyProvider

Spec == Init /\ [][Next]_vars

\* --------------------------------------------------------------- AuthCosigner

UserKeys == {"u1", "u2"}

\* The PK tokens handed to the cosigner: the user key upk of the CIC, the
\* aud claim of the payload (a string, a list of strings, a list with a
\* non-string member, a number), and opValid: whether VerifyProvider
\* returns nil for the token (provider signature and commitment are good).
CosignerPkts ==
    {[upk |-> "u1", aud |-> JString("verifier"), opValid |-> TRUE],
     [upk |-> "u2", aud |-> JList(<<JString("verifier"), JString("other")>>), opValid |-> FALSE],
     [upk |-> "u1", aud |-> JList(<<JNumber>>), opValid |-> TRUE],
     [upk |-> "u2", aud |-> JNumber, opValid |-> TRUE]}

\* The two sessions a client may open: redirect URI and nonce.
Sessions ==
    {[ruri |-> "https://a/cb", nonce |-> "n1"], [ruri |-> "https://b/cb", nonce |-> "n2"]}

\* Payload of the JWS handed to InitAuth: an InitMFAAuth message signed at
\* the first or the last minute of the clock, the JSON null, or bytes that
\* do not parse.
InitPayloads ==
    [kind : {"msg"}, TimeSigned : {0, MaxTime}, session : Sessions]
    \cup [kind : {"null", "garbage"}, TimeSigned : {0},
          session : {[ruri |-> "https://a/cb", nonce |-> "n1"]}]

InitSigs == [signer : UserKeys, payload : InitPayloads]

AuthIDs == 1..MaxAuthId

\* The random authcodes, in the order NewAuthcode draws them.
AuthCodeNames == <<"c1", "c2">>

AuthCodes == {AuthCodeNames[i] : i \in 1..Len(AuthCodeNames)}

\* The JWS handed to RedeemAuthcode: well formed or not, its signer, its
\* payload (an authcode).
RedeemSigs == [wellformed : BOOLEAN, signer : UserKeys, payload : AuthCodes]

\* pkt.VerifySignedMessage(sig): the JWS verifies under the upk of the token.
VerifySignedMessage(p, sig) == sig.signer = p.upk

\* NewAuthState, the aud switch: "nil" for a string or a list of strings,
\* a panic for a list with a non-string member (v.(string)), an error for
\* any other aud.
NewAuthStateCheck(p) ==
    IF p.aud.t = "string" THEN "nil"
    ELSE IF p.aud.t = "list"
         THEN (IF \A i \in 1..Len(p.aud.l) : p.aud.l[i].t = "string" THEN "nil" ELSE "panic")
    ELSE "ErrAud"

\* NewAuthState, the AuthState it builds.
NewAuthState(p, ruri, nonce) ==
    [Pkt |-> p,
     Aud |-> (IF p.aud.t = "string" THEN p.aud.s ELSE JoinAud(p.aud.l)),
     RedirectURI |-> ruri,
     Nonce |-> nonce,
     SigIssued |-> FALSE]

\* Mutant of InitAuthCheck: the time.Until test is missing.
InitAuthCheckNoFuture(p, sig) ==
    IF ~VerifySignedMessage(p, sig) THEN "ErrSignature"
    ELSE IF sig.payload.kind = "garbage" THEN "ErrParse"
    ELSE IF sig.payload.kind = "null" THEN "panic"
    ELSE IF now - sig.payload.TimeSigned > AuthWindowMinutes THEN "ErrTooOld"
    ELSE NewAuthStateCheck(p)

\* What InitAuth returns before it touches the state: "nil" if it goes on to
\* create the AuthState.  The token is not handed to a provider verifier.
InitAuthCheck(p, sig) ==
    IF ~VerifySignedMessage(p, sig) THEN "ErrSignature"
    ELSE IF sig.payload.kind = "garbage" THEN "ErrParse"
    ELSE IF sig.payload.kind = "null" THEN "panic"
    ELSE IF now - sig.payload.TimeSigned > AuthWindowMinutes THEN "ErrTooOld"
    ELSE IF sig.payload.TimeSigned - now > AuthWindowMinutes THEN "ErrFuture"
    ELSE NewAuthStateCheck(p)

\* m[k] = val
MapPut(m, k, val) == [x \in DOMAIN m \cup {k} |-> IF x = k THEN val ELSE m[x]]

\* The (value, error) an operation returns: res is "ok", "error" or "panic",
\* err the error ("nil" on success).
Result(e) == IF e = "nil" THEN "ok" ELSE IF e = "panic" THEN "panic" ELSE "error"

\* Mutant of AtomicAdd: the counter is not advanced.
AtomicAddStuck(iter) == iter

\* c.AuthIdIter.Add(1): the new value of the counter, which is also returned.
AtomicAdd(iter) == iter + 1

\* Mutant of InitAuthCall: CreateAuthID runs before the checks, so a refused
\* call has advanced the counter.
InitAuthCallCountFirst(p, sig) ==
    LET e == InitAuthCheck(p, sig)
        authID == AtomicAdd(AuthIdIter)
    IN IF e # "nil"
       THEN /\ out' = [op |-> "InitAuth", res |-> Result(e), err |-> e,
                       TimeSigned |-> sig.payload.TimeSigned]
            /\ AuthIdIter' = authID
            /\ UNCHANGED AuthStateMap
       ELSE /\ out' = [op |-> "InitAuth", res |-> "ok", err |-> "nil",
                       TimeSigned |-> sig.payload.TimeSigned,
                       authID |-> authID, session |-> sig.payload.session, at |-> now]
            /\ AuthIdIter' = authID
            /\ AuthStateMap' =
                   MapPut(AuthStateMap, authID,
                          NewAuthState(p, sig.payload.session.ruri,
                                       sig.payload.session.nonce))

\* InitAuth(pkt, sig), with CreateAuthID: the counter is incremented and the
\* auth_id is the HMAC of the new counter value (and the time), here the
\* value itself.  The result records the TimeSigned of the message, and for
\* a successful call its session and the time `at` of the call.
InitAuthCall(p, sig) ==
    LET e == InitAuthCheck(p, sig)
        authID == AtomicAdd(AuthIdIter)
    IN IF e # "nil"
       THEN /\ out' = [op |-> "InitAuth", res |-> Result(e), err |-> e,
                       TimeSigned |-> sig.payload.TimeSigned]
            /\ UNCHANGED <<AuthIdIter, AuthStateMap>>
       ELSE /\ out' = [op |-> "InitAuth", res |-> "ok", err |-> "nil",
                       TimeSigned |-> sig.payload.TimeSigned,
                       authID |-> authID, session |-> sig.payload.session, at |-> now]
            /\ AuthIdIter' = authID
            /\ AuthStateMap' =
                   MapPut(AuthStateMap, authID,
                          NewAuthState(p, sig.payload.session.ruri,
                                       sig.payload.session.nonce))

InitAuth ==
    /\ AuthIdIter < MaxAuthId
    /\ \E p \in CosignerPkts, sig \in InitSigs : InitAuthCall(p, sig)
    /\ UNCHANGED <<AuthCodeMap, now, redeemed, verifierVars, clientVars, goroutineVars, toolVars>>

\* NewAuthcode: a fresh random authcode is stored for authID, whatever
\* authID is.
NewAuthcode ==
    /\ Cardinality(DOMAIN AuthCodeMap) < Len(AuthCodeNames)
    /\ \E authID \in AuthIDs :
         LET authCode == AuthCodeNames[Cardinality(DOMAIN AuthCodeMap) + 1] IN
         /\ AuthCodeMap' = MapPut(AuthCodeMap, authCode, authID)
         /\ out' = [op |-> "NewAuthcode", res |-> "ok", err |-> "nil",
                     authCode |-> authCode, authID |-> authID]
    /\ UNCHANGED <<AuthIdIter, AuthStateMap, now, redeemed, verifierVars, clientVars, goroutineVars, toolVars>>

\* Mutant of IssueSignature: the claims of the latest session are used.
IssueSignatureLatest(p, authID) ==
    [Iss |-> CosignerIssuer,
     KeyID |-> CosignerKeyID,
     Algorithm |-> CosignerAlg,
     AuthID |-> authID,
     RedirectURI |-> AuthStateMap[AuthIdIter].RedirectURI,
     Nonce |-> AuthStateMap[AuthIdIter].Nonce,
     Pkt |-> p]

\* IssueSignature: the protected claims of the cosignature put on pkt.
IssueSignature(p, authID) ==
    [Iss |-> CosignerIssuer,
     KeyID |-> CosignerKeyID,
     Algorithm |-> CosignerAlg,
     AuthID |-> authID,
     RedirectURI |-> AuthStateMap[authID].RedirectURI,
     Nonce |-> AuthStateMap[authID].Nonce,
     Pkt |-> p]

\* Mutant of RedeemCheck: the JWS is not verified under the stored token.
RedeemCheckNoVerify(sig) ==
    IF ~sig.wellformed THEN "ErrParse"
    ELSE IF sig.payload \notin DOMAIN AuthCodeMap THEN "ErrInvalidAuthcode"
    ELSE IF AuthCodeMap[sig.payload] \notin DOMAIN AuthStateMap THEN "panic"
    ELSE "nil"

\* What RedeemAuthcode returns: an error, a panic (the authcode names an
\* auth_id without AuthState), or "nil" when it issues the cosignature.
RedeemCheck(sig) ==
    IF ~sig.wellformed THEN "ErrParse"
    ELSE IF sig.payload \notin DOMAIN AuthCodeMap THEN "ErrInvalidAuthcode"
    ELSE IF AuthCodeMap[sig.payload] \notin DOMAIN AuthStateMap THEN "panic"
    ELSE IF ~VerifySignedMessage(AuthStateMap[AuthCodeMap[sig.payload]].Pkt, sig)
         THEN "ErrSignature"
    ELSE "nil"

\* RedeemAuthcode: neither map is written.
RedeemAuthcode ==
    /\ \E sig \in RedeemSigs :
         LET e == RedeemCheck(sig) IN
         IF e # "nil"
         THEN /\ out' = [op |-> "RedeemAuthcode", res |-> Result(e), err |-> e, sig |-> sig]
              /\ UNCHANGED redeemed
         ELSE /\ out' = [op |-> "RedeemAuthcode", res |-> "ok", err |-> "nil", sig |-> sig,
                         cos |-> IssueSignature(AuthStateMap[AuthCodeMap[sig.payload]].Pkt,
                                                AuthCodeMap[sig.payload])]
              /\ redeemed' = redeemed \cup {sig.payload}
    /\ UNCHANGED <<AuthIdIter, AuthStateMap, AuthCodeMap, now, verifierVars, clientVars, goroutineVars, toolVars>>

\* Time passes.
Tick ==
    /\ now < MaxTime
    /\ now' = now + 1
    /\ UNCHANGED <<AuthIdIter, AuthStateMap, AuthCodeMap, out, redeemed, verifierVars, clientVars, goroutineVars, toolVars>>

\* A verifier that is not running.
IdleVerifier ==
    /\ v = [issuer |-> "https://accounts.example.com", commitmentClaim |-> "nonce",
            ClientID |-> "verifier", SkipClientIDCheck |-> FALSE,
            SkipExpirationCheck |-> FALSE, GQOnly |-> FALSE, GQCommitment |-> FALSE]
    /\ pkt = NewPkt("https://accounts.example.com")
    /\ pc = "idle"
    /\ result = "running"
    /\ err = ""
    /\ foundKey = "notcalled"
    /\ sigVerified = FALSE

\* The cosigner looked at on its own, one call at a time.
InitCosigner ==
    /\ IdleVerifier
    /\ NewAuthCosigner
    /\ client = NoClient
    /\ NoGoroutines
    /\ NoTools

NextCosigner ==
    \/ InitAuth
    \/ NewAuthcode
    \/ RedeemAuthcode
    \/ Tick

SpecCosigner == InitCosigner /\ [][NextCosigner]_vars

\* ------------------------------------------- AuthCosigner, concurrent callers
\* Two goroutines call InitAuth, NewAuthcode and RedeemAuthcode on the same
\* AuthCosigner.  gpc[g] is the statement goroutine g executes next; a step
\* executes one statement that reads or writes shared state (with the local
\* computation before it).  The methods take no lock.

\* The statements that access a map: which map, and whether they write it.
Accesses ==
    [storeAuthState |-> [map |-> "AuthStateMap", write |-> TRUE],
     lookupAuthState |-> [map |-> "AuthStateMap", write |-> FALSE],
     issueSignature |-> [map |-> "AuthStateMap", write |-> FALSE],
     storeAuthCode |-> [map |-> "AuthCodeMap", write |-> TRUE],
     lookupAuthCode |-> [map |-> "AuthCodeMap", write |-> FALSE]]

MapAccessPcs == DOMAIN Accesses

\* Goroutine g is about to access a map that another goroutine is about to
\* access too, one of them writing: a data race on a Go map.
DataRace(g) ==
    \E h \in Goroutines \ {g} :
        /\ gpc[h] \in MapAccessPcs
        /\ Accesses[gpc[h]].map = Accesses[gpc[g]].map
        /\ Accesses[gpc[h]].write \/ Accesses[gpc[g]].write

\* The runtime detects the race: "fatal error: concurrent map writes" (or
\* "concurrent map read and map write") ends the process.
Fatal ==
    /\ gpc' = [h \in Goroutines |-> "crashed"]
    /\ out' = [op |-> "runtime", res |-> "fatal", err |-> "concurrent map access"]
    /\ UNCHANGED <<gloc, AuthIdIter, AuthStateMap, AuthCodeMap, now, redeemed>>

\* Goroutine g goes on with statement `stmt` and locals `loc`.
GoStep(g, stmt, loc) ==
    /\ gpc' = [gpc EXCEPT ![g] = stmt]
    /\ gloc' = [gloc EXCEPT ![g] = loc]

\* The call of goroutine g returns o.
GoReturn(g, o) ==
    /\ GoStep(g, "idle", [op |-> "none"])
    /\ out' = o

\* The InitAuth calls the goroutines make: a token with a string aud and a
\* fresh InitMFAAuth message for one session, signed by the user of the token
\* or by another key.
GoInitSigs ==
    {sig \in InitSigs : sig.payload.kind = "msg" /\ sig.payload.TimeSigned = 0
                         /\ sig.payload.session.nonce = "n1"}

\* InitAuth up to CreateAuthID: the checks and NewAuthState.
GoInitAuth(g) ==
    /\ gpc[g] = "idle"
    /\ AuthIdIter + Cardinality({h \in Goroutines : gpc[h] = "createAuthID"}) < MaxAuthId
    /\ \E p \in {q \in CosignerPkts : q.aud.t = "string"}, sig \in GoInitSigs :
         LET e == InitAuthCheck(p, sig) IN
         IF e # "nil"
         THEN GoReturn(g, [op |-> "InitAuth", res |-> Result(e), err |-> e])
         ELSE /\ GoStep(g, "createAuthID",
                        [op |-> "InitAuth",
                         authState |-> NewAuthState(p, sig.payload.session.ruri,
                                                    sig.payload.session.nonce)])
              /\ UNCHANGED out
    /\ UNCHANGED <<AuthIdIter, AuthStateMap, AuthCodeMap, now, redeemed,
                   verifierVars, clientVars, toolVars>>

\* CreateAuthID: authIdInt := c.AuthIdIter.Add(1), one atomic step.
GoCreateAuthID(g) ==
    /\ gpc[g] = "createAuthID"
    /\ AuthIdIter' = AtomicAdd(AuthIdIter)
    /\ GoStep(g, "storeAuthState",
              [op |-> "InitAuth", authState |-> gloc[g].authState,
               authID |-> AtomicAdd(AuthIdIter)])
    /\ UNCHANGED <<AuthStateMap, AuthCodeMap, now, out, redeemed, verifierVars, clientVars, toolVars>>

\* c.AuthStateMap[authID] = authState; return authID, nil.  In a data race
\* the write lands, is lost, or the runtime ends the process.
GoStoreAuthState(g) ==
    /\ gpc[g] = "storeAuthState"
    /\ \/ /\ AuthStateMap' = MapPut(AuthStateMap, gloc[g].authID, gloc[g].authState)
          /\ GoReturn(g, [op |-> "InitAuth", res |-> "ok", err |-> "nil",
                          authID |-> gloc[g].authID])
          /\ UNCHANGED <<AuthIdIter, AuthCodeMap, now, redeemed>>
       \/ /\ DataRace(g)
          /\ GoReturn(g, [op |-> "InitAuth", res |-> "ok", err |-> "nil",
                          authID |-> gloc[g].authID])
          /\ UNCHANGED <<AuthIdIter, AuthStateMap, AuthCodeMap, now, redeemed>>
       \/ /\ DataRace(g)
          /\ Fatal
    /\ UNCHANGED <<verifierVars, clientVars, toolVars>>

\* The authcodes goroutines have drawn and not stored yet.
AuthCodesInFlight ==
    {gloc[h].authCode : h \in {k \in Goroutines : gpc[k] = "storeAuthCode"}}

\* NewAuthcode up to the map write: rand.Read draws a fresh authcode.
GoNewAuthcode(g) ==
    /\ gpc[g] = "idle"
    /\ \E i \in 1..Len(AuthCodeNames) :
         /\ AuthCodeNames[i] \notin DOMAIN AuthCodeMap \cup AuthCodesInFlight
         /\ \A j \in 1..(i - 1) :
               AuthCodeNames[j] \in DOMAIN AuthCodeMap \cup AuthCodesInFlight
         /\ \E authID \in AuthIDs :
               GoStep(g, "storeAuthCode",
                      [op |-> "NewAuthcode", authCode |-> AuthCodeNames[i],
                       authID |-> authID])
    /\ UNCHANGED <<AuthIdIter, AuthStateMap, AuthCodeMap, now, out, redeemed,
                   verifierVars, clientVars, toolVars>>

\* c.AuthCodeMap[authCode] = authID; return authCode, nil
GoStoreAuthCode(g) ==
    /\ gpc[g] = "storeAuthCode"
    /\ \/ /\ AuthCodeMap' = MapPut(AuthCodeMap, gloc[g].authCode, gloc[g].authID)
          /\ GoReturn(g, [op |-> "NewAuthcode", res |-> "ok", err |-> "nil",
                          authCode |-> gloc[g].authCode, authID |-> gloc[g].authID])
          /\ UNCHANGED <<AuthIdIter, AuthStateMap, now, redeemed>>
       \/ /\ DataRace(g)
          /\ GoReturn(g, [op |-> "NewAuthcode", res |-> "ok", err |-> "nil",
                          authCode |-> gloc[g].authCode, authID |-> gloc[g].authID])
          /\ UNCHANGED <<AuthIdIter, AuthStateMap, AuthCodeMap, now, redeemed>>
       \/ /\ DataRace(g)
          /\ Fatal
    /\ UNCHANGED <<verifierVars, clientVars, toolVars>>

\* RedeemAuthcode up to the first map read: jws.Parse(sig).
GoRedeemAuthcode(g) ==
    /\ gpc[g] = "idle"
    /\ \E sig \in RedeemSigs :
         IF ~sig.wellformed
         THEN GoReturn(g, [op |-> "RedeemAuthcode", res |-> "error", err |-> "ErrParse"])
         ELSE /\ GoStep(g, "lookupAuthCode", [op |-> "RedeemAuthcode", sig |-> sig])
              /\ UNCHANGED out
    /\ UNCHANGED <<AuthIdIter, AuthStateMap, AuthCodeMap, now, redeemed,
                   verifierVars, clientVars, toolVars>>

\* authID, ok := c.AuthCodeMap[string(msg.Payload())]
GoLookupAuthCode(g) ==
    /\ gpc[g] = "lookupAuthCode"
    /\ \/ /\ IF gloc[g].sig.payload \notin DOMAIN AuthCodeMap
             THEN GoReturn(g, [op |-> "RedeemAuthcode", res |-> "error",
                               err |-> "ErrInvalidAuthcode"])
             ELSE /\ GoStep(g, "lookupAuthState",
                            [op |-> "RedeemAuthcode", sig |-> gloc[g].sig,
                             authID |-> AuthCodeMap[gloc[g].sig.payload]])
                  /\ UNCHANGED out
          /\ UNCHANGED <<AuthIdIter, AuthStateMap, AuthCodeMap, now, redeemed>>
       \/ /\ DataRace(g)
          /\ Fatal
    /\ UNCHANGED <<verifierVars, clientVars, toolVars>>

\* authState := c.AuthStateMap[authID]; authState.Pkt.VerifySignedMessage(sig)
GoLookupAuthState(g) ==
    /\ gpc[g] = "lookupAuthState"
    /\ \/ /\ IF gloc[g].authID \notin DOMAIN AuthStateMap
             THEN GoReturn(g, [op |-> "RedeemAuthcode", res |-> "panic", err |-> "panic"])
             ELSE IF ~VerifySignedMessage(AuthStateMap[gloc[g].authID].Pkt, gloc[g].sig)
             THEN GoReturn(g, [op |-> "RedeemAuthcode", res |-> "error",
                               err |-> "ErrSignature"])
             ELSE /\ GoStep(g, "issueSignature",
                            [op |-> "RedeemAuthcode", sig |-> gloc[g].sig,
                             authID |-> gloc[g].authID,
                             pkt |-> AuthStateMap[gloc[g].authID].Pkt])
                  /\ UNCHANGED out
          /\ UNCHANGED <<AuthIdIter, AuthStateMap, AuthCodeMap, now, redeemed>>
       \/ /\ DataRace(g)
          /\ Fatal
    /\ UNCHANGED <<verifierVars, clientVars, toolVars>>

\* IssueSignature: authState := c.AuthStateMap[authID]; c.Cosign(pkt, protected)
GoIssueSignature(g) ==
    /\ gpc[g] = "issueSignature"
    /\ \/ /\ GoReturn(g, [op |-> "RedeemAuthcode", res |-> "ok", err |-> "nil",
                          cos |-> IssueSignature(gloc[g].pkt, gloc[g].authID)])
          /\ redeemed' = redeemed \cup {gloc[g].sig.payload}
          /\ UNCHANGED <<AuthIdIter, AuthStateMap, AuthCodeMap, now>>
       \/ /\ DataRace(g)
          /\ Fatal
    /\ UNCHANGED <<verifierVars, clientVars, toolVars>>

InitConcurrent ==
    /\ IdleVerifier
    /\ NewAuthCosigner
    /\ client = NoClient
    /\ NoGoroutines
    /\ NoTools

NextConcurrent ==
    \E g \in Goroutines :
        \/ GoInitAuth(g)
        \/ GoCreateAuthID(g)
        \/ GoStoreAuthState(g)
        \/ GoNewAuthcode(g)
        \/ GoStoreAuthCode(g)
        \/ GoRedeemAuthcode(g)
        \/ GoLookupAuthCode(g)
        \/ GoLookupAuthState(g)
        \/ GoIssueSignature(g)

SpecConcurrent == InitConcurrent /\ [][NextConcurrent]_vars

\* ------------------------------------------------------------ VerifyPKToken
\* VerifyPKToken(ctx, pkt, provider, cosPk) as a chain of checks.  Signatures
\* are ideal: a signature verifies under a key exactly when that key made it.

\* The cosPk argument: nil, a cosigner public key, or a value jwk.FromRaw
\* does not accept.
CosPks == {"nil", "key", "unsupported"}

\* What the methods of the OpenIdProvider handed to VerifyPKToken return;
\* PublicKey may return a key that is not an *rsa.PublicKey.
OpenIdProviders ==
    [PublicKey : {"nil", "nonRSA", "ErrPublicKey"},
     VerifyCICHash : {"nil", "ErrCICHash"},
     VerifyNonGQSig : {"nil", "ErrNonGQSig", "ErrNonGQUnsupported"}]

Check(name, e) == [name |-> name, err |-> e]

\* A chain of calls, each returning its error at once: the error returned
\* (nil if none fails) and the calls made.
RunChecks(checks) ==
    LET failed == {i \in 1..Len(checks) : checks[i].err # "nil"}
        last == IF failed = {} THEN Len(checks)
                ELSE CHOOSE i \in failed : \A j \in failed : i <= j
    IN [err |-> IF failed = {} THEN "nil" ELSE checks[last].err,
        ran |-> [i \in 1..last |-> checks[i].name]]

\* pkt.VerifyCicSig()
VerifyCicSig(p) == IF p.cicSig = "valid" THEN "nil" ELSE "ErrCicSig"

\* pkt.VerifyCosSig(cosPkJwk, ES256): the Cos JWS is there and verifies under
\* the cosigner key.
VerifyCosSig(p) == IF p.cos = "valid" THEN "nil" ELSE "ErrCosSig"

\* Mutant of CosignerChecks: the cosignature is never looked at.
CosignerChecksSkipped(p, cosPk) == <<>>

\* if cosPk != nil { jwk.FromRaw(cosPk); pkt.VerifyCosSig(...) }
CosignerChecks(p, cosPk) ==
    IF cosPk = "nil" THEN <<>>
    ELSE <<Check("FromRaw", IF cosPk = "unsupported" THEN "ErrFromRaw" ELSE "nil"),
           Check("VerifyCosSig", VerifyCosSig(p))>>

\* pkt.VerifyGQSig(rsaPubKey, GQSecurityParameter) / sv.Verify(...)
VerifyGQ(p) == IF p.signedBy = "provider" THEN "nil" ELSE "ErrGQSig"

\* The switch on the provider signature type in VerifyPKToken; it has no
\* default case, so another type gets no provider check.
ProviderChecks(p, provider) ==
    CASE p.sigType = "Gq" ->
            <<Check("PublicKey",
                    IF provider.PublicKey = "ErrPublicKey" THEN "ErrPublicKey" ELSE "nil"),
              Check("pubKey.(*rsa.PublicKey)",
                    IF provider.PublicKey = "nonRSA" THEN "panic" ELSE "nil"),
              Check("VerifyGQSig", VerifyGQ(p)),
              Check("VerifyCICHash", provider.VerifyCICHash)>>
      [] p.sigType = "Oidc" ->
            <<Check("VerifyNonGQSig", provider.VerifyNonGQSig)>>
      [] OTHER -> <<>>

\* VerifyPKToken(ctx, pkt, provider, cosPk)
VerifyPKToken(p, provider, cosPk) ==
    RunChecks(<<Check("GetCicValues", IF p.cic = "ok" THEN "nil" ELSE "ErrCicValues"),
                Check("ProviderSignatureType",
                      IF p.sigType = "missing" THEN "ErrSigTypeMissing" ELSE "nil")>>
              \o ProviderChecks(p, provider)
              \o <<Check("VerifyCicSig", VerifyCicSig(p))>>
              \o CosignerChecks(p, cosPk))

\* ------------------------------------------------------- OpkClient.OidcAuth
\* One call of OidcAuth, statement by statement.  Every call it makes into a
\* library or to the OP may return an error.

\* The statements of OidcAuth in program order.
OidcSteps ==
    <<"publicKeyOf", "newClaims", "hash", "requestTokens", "sign", "new", "verify">>

ExtraClaims == {"none", "extra"}

NoCic == [upk |-> "none", alg |-> "none", extra |-> "none"]

NoIdToken == [nonce |-> "none"]

NoCicToken == [cic |-> NoCic, over |-> NoIdToken, signer |-> "none", alg |-> "none"]

NoPKToken == [op |-> NoIdToken, cicTok |-> NoCicToken]

\* cic.Hash(): the commitment to the client instance claims.
CicHash(cic) == "H(" \o cic.upk \o "," \o cic.alg \o "," \o cic.extra \o ")"

\* The call OidcAuth(ctx, signer, alg, extraClaims, signGQ) at its first
\* statement.
NewOidcAuth(signer, alg, extraClaims, signGQ) ==
    [pc |-> "publicKeyOf", signer |-> signer, alg |-> alg, extraClaims |-> extraClaims,
     signGQ |-> signGQ, ran |-> <<>>, jwkAlg |-> "none", cic |-> NoCic,
     nonce |-> "none", requested |-> "none", idToken |-> NoIdToken,
     cicToken |-> NoCicToken, pkt |-> NoPKToken, verified |-> "notrun",
     ret |-> "nil", err |-> "nil"]

\* return nil, err  at statement `step`
OidcFail(c, step, e) ==
    [c EXCEPT !.pc = "done", !.ran = Append(@, step), !.ret = "nil", !.err = e]

\* statement `step` succeeded, go on with `next`
OidcStep(c, step, next) ==
    [c EXCEPT !.pc = next, !.ran = Append(@, step)]

\* jwk.PublicKeyOf(signer); jwkKey.Set(jwk.AlgorithmKey, alg)
OidcPublicKeyOf ==
    /\ client.pc = "publicKeyOf"
    /\ \E ok \in BOOLEAN :
         client' = IF ok
                   THEN [OidcStep(client, "publicKeyOf", "newClaims") EXCEPT
                            !.jwkAlg = client.alg]
                   ELSE OidcFail(client, "publicKeyOf", "ErrPublicKeyOf")
    /\ UNCHANGED <<verifierVars, cosignerVars, goroutineVars, toolVars>>

\* clientinstance.NewClaims(jwkKey, extraClaims)
OidcNewClaims ==
    /\ client.pc = "newClaims"
    /\ \E ok \in BOOLEAN :
         client' = IF ok
                   THEN [OidcStep(client, "newClaims", "hash") EXCEPT
                            !.cic = [upk |-> client.signer, alg |-> client.jwkAlg,
                                     extra |-> client.extraClaims]]
                   ELSE OidcFail(client, "newClaims", "ErrNewClaims")
    /\ UNCHANGED <<verifierVars, cosignerVars, goroutineVars, toolVars>>

\* nonce, err := cic.Hash()
OidcHash ==
    /\ client.pc = "hash"
    /\ \E ok \in BOOLEAN :
         client' = IF ok
                   THEN [OidcStep(client, "hash", "requestTokens") EXCEPT
                            !.nonce = CicHash(client.cic)]
                   ELSE OidcFail(client, "hash", "ErrHash")
    /\ UNCHANGED <<verifierVars, cosignerVars, goroutineVars, toolVars>>

\* idToken, err := o.Op.RequestTokens(ctx, string(nonce)).  The OP answers
\* with an ID token whose nonce claim is the requested one or another one.
OidcRequestTokens ==
    /\ client.pc = "requestTokens"
    /\ \/ \E n \in {client.nonce, "stale"} :
            client' = [OidcStep(client, "requestTokens", "sign") EXCEPT
                          !.requested = client.nonce, !.idToken = [nonce |-> n]]
       \/ client' = [OidcFail(client, "requestTokens", "ErrRequestTokens") EXCEPT
                        !.requested = client.nonce]
    /\ UNCHANGED <<verifierVars, cosignerVars, goroutineVars, toolVars>>

\* cicToken, err := cic.Sign(signer, alg, idToken.Bytes())
OidcSign ==
    /\ client.pc = "sign"
    /\ \E ok \in BOOLEAN :
         client' = IF ok
                   THEN [OidcStep(client, "sign", "new") EXCEPT
                            !.cicToken = [cic |-> client.cic, over |-> client.idToken,
                                          signer |-> client.signer, alg |-> client.alg]]
                   ELSE OidcFail(client, "sign", "ErrCicSign")
    /\ UNCHANGED <<verifierVars, cosignerVars, goroutineVars, toolVars>>

\* pkt, err := pktoken.New(idToken.Bytes(), cicToken)
OidcNew ==
    /\ client.pc = "new"
    /\ \E ok \in BOOLEAN :
         client' = IF ok
                   THEN [OidcStep(client, "new", "verify") EXCEPT
                            !.pkt = [op |-> client.idToken, cicTok |-> client.cicToken]]
                   ELSE OidcFail(client, "new", "ErrNewPKToken")
    /\ UNCHANGED <<verifierVars, cosignerVars, goroutineVars, toolVars>>

\* The answers of o.Op to VerifyCICHash and VerifyNonGQSig for a token: both
\* refuse an ID token whose nonce is not the commitment, and VerifyCICHash
\* accepts one whose nonce is.
OpAnswers(token) ==
    {provider \in OpenIdProviders :
        IF token.op.nonce = CicHash(token.cicTok.cic)
        THEN provider.VerifyCICHash = "nil"
        ELSE provider.VerifyCICHash # "nil" /\ provider.VerifyNonGQSig # "nil"}

\* What VerifyPKToken(ctx, pkt, o.Op), without cosigner key, may return for
\* the token OidcAuth assembled, whatever the signature type of the ID token,
\* the key that signed it and the answers of the OP are.
VerifyPKTokenResults(token) ==
    {VerifyPKToken([cic |-> "ok", sigType |-> sigType, signedBy |-> signedBy,
                    cicSig |-> IF token.cicTok.signer = token.cicTok.cic.upk
                               THEN "valid" ELSE "invalid",
                    cos |-> "none"],
                   provider, "nil").err :
        sigType \in {"Gq", "Oidc", "other", "missing"},
        signedBy \in {"provider", "other"},
        provider \in OpAnswers(token)}

\* Mutant of OidcAuthReturn: the token is returned whatever VerifyPKToken said.
OidcAuthReturnUnverified(c, e) ==
    [c EXCEPT !.pc = "done", !.ran = Append(@, "verify"),
              !.verified = (IF e = "nil" THEN "ok" ELSE "failed"),
              !.ret = "pkt", !.err = "nil"]

\* err = VerifyPKToken(...); if err != nil return nil, err; return pkt, nil.
\* A panic in VerifyPKToken ends the call without a return value.
OidcAuthReturn(c, e) ==
    IF e = "panic"
    THEN [c EXCEPT !.pc = "panicked", !.ran = Append(@, "verify"), !.verified = "failed"]
    ELSE IF e # "nil"
    THEN [OidcFail(c, "verify", e) EXCEPT !.verified = "failed"]
    ELSE [c EXCEPT !.pc = "done", !.ran = Append(@, "verify"), !.verified = "ok",
                   !.ret = "pkt", !.err = "nil"]

OidcVerify ==
    /\ client.pc = "verify"
    /\ \E e \in VerifyPKTokenResults(client.pkt) : client' = OidcAuthReturn(client, e)
    /\ UNCHANGED <<verifierVars, cosignerVars, goroutineVars, toolVars>>

InitClient ==
    /\ IdleVerifier
    /\ NewAuthCosigner
    /\ NoGoroutines
    /\ NoTools
    /\ \E signer \in UserKeys, alg \in {"ES256", RS256}, x \in ExtraClaims, gq \in BOOLEAN :
         client = NewOidcAuth(signer, alg, x, gq)

OidcAuth ==
    \/ OidcPublicKeyOf
    \/ OidcNewClaims
    \/ OidcHash
    \/ OidcRequestTokens
    \/ OidcSign
    \/ OidcNew
    \/ OidcVerify

NextClient == OidcAuth

SpecClient == InitClient /\ [][NextClient]_vars

\* ------------------------------------------------- opkssh: OpenSSH version
\* checkOpenSSHVersion runs `sshd -V` and hands the output to
\* isOpenSSHVersion8Dot1OrGreater.  Strings are TLA+ strings; a character is
\* a string of length 1.

\* The characters version strings are made of.
VersionChars == {"0", "1", "7", "8", "9", ".", "p"}

RECURSIVE StringsUpTo(_, _)
\* The strings over chars of at most n characters.
StringsUpTo(chars, n) ==
    IF n = 0 THEN {""}
    ELSE LET S == StringsUpTo(chars, n - 1)
         IN S \cup {s \o c : s \in S, c \in chars}

\* What `sshd -V` may print: a version with or without the OpenSSH_ prefix
\* and the ", OpenSSL ..." part.
SshdOutputs ==
    {pre \o ver \o post : pre \in {"OpenSSH_", ""},
                          ver \in StringsUpTo(VersionChars, MaxVerLen),
                          post \in {", OpenSSL 3.0.2", ""}}

\* The i-th character of s.
CharAt(s, i) == SubSeq(s, i, i)

\* The byte of a character of a version (ASCII).
Byte(c) ==
    CASE c = "." -> 46
      [] c = "0" -> 48
      [] c = "1" -> 49
      [] c = "7" -> 55
      [] c = "8" -> 56
      [] c = "9" -> 57

IsDigit(c) == c \in {"0", "1", "7", "8", "9"}

\* strings.Index(s, sep), counted from 1; 0 when sep does not occur in s.
StringIndex(s, sep) ==
    LET hits == {i \in 1..(Len(s) - Len(sep) + 1) : SubSeq(s, i, i + Len(sep) - 1) = sep}
    IN IF hits = {} THEN 0 ELSE CHOOSE i \in hits : \A j \in hits : i <= j

\* strings.Split(s, sep)[0]
SplitFirst(s, sep) ==
    IF StringIndex(s, sep) = 0 THEN s ELSE SubSeq(s, 1, StringIndex(s, sep) - 1)

\* strings.TrimPrefix(s, prefix)
TrimPrefix(s, prefix) ==
    IF Len(s) >= Len(prefix) /\ SubSeq(s, 1, Len(prefix)) = prefix
    THEN SubSeq(s, Len(prefix) + 1, Len(s))
    ELSE s

RECURSIVE DigitsEnd(_, _)
\* The position after the run of digits of s that starts at position i.
DigitsEnd(s, i) ==
    IF i <= Len(s) /\ IsDigit(CharAt(s, i)) THEN DigitsEnd(s, i + 1) ELSE i

RECURSIVE GroupsEnd(_, _)
\* (?:\.\d+)* from position i: the position after the last ".digits" group.
GroupsEnd(s, i) ==
    IF /\ i <= Len(s)
       /\ CharAt(s, i) = "."
       /\ DigitsEnd(s, i + 1) > i + 1
    THEN GroupsEnd(s, DigitsEnd(s, i + 1))
    ELSE i

\* re.FindStringSubmatch(s) for ^(\d+(?:\.\d+)*).* : whether it matches, and
\* the first group.
FindStringSubmatch(s) ==
    IF DigitsEnd(s, 1) = 1
    THEN [matched |-> FALSE, group |-> ""]
    ELSE [matched |-> TRUE, group |-> SubSeq(s, 1, GroupsEnd(s, DigitsEnd(s, 1)) - 1)]

RECURSIVE StringGE(_, _)
\* a >= b on Go strings: byte by byte, a proper prefix being smaller.
StringGE(a, b) ==
    IF b = "" THEN TRUE
    ELSE IF a = "" THEN FALSE
    ELSE IF Byte(CharAt(a, 1)) # Byte(CharAt(b, 1))
         THEN Byte(CharAt(a, 1)) > Byte(CharAt(b, 1))
    ELSE StringGE(SubSeq(a, 2, Len(a)), SubSeq(b, 2, Len(b)))

\* isOpenSSHVersion8Dot1OrGreater(opensshVersion): the (bool, error) returned.
isOpenSSHVersion8Dot1OrGreater(opensshVersion) ==
    LET trimmed == TrimPrefix(SplitFirst(opensshVersion, ", "), "OpenSSH_")
        matches == FindStringSubmatch(trimmed)
    IN IF ~matches.matched
       THEN [ok |-> FALSE, err |-> "invalid OpenSSH version"]
       ELSE [ok |-> StringGE(matches.group, "8.1"), err |-> "nil"]

\* checkOpenSSHVersion: `sshd -V` printed output; the warning is logged when
\* the answer is false.
CheckOpenSSHVersion ==
    /\ sshd.pc = "exec"
    /\ LET r == isOpenSSHVersion8Dot1OrGreater(sshd.output)
       IN sshd' = [sshd EXCEPT !.pc = "done", !.ok = r.ok, !.err = r.err,
                               !.warned = ~r.ok]
    /\ UNCHANGED <<verifierVars, cosignerVars, clientVars, goroutineVars,
                   sshDir, verifyCmd, opVerify>>

\* checkOpenSSHVersion: running `sshd -V` failed; nothing is checked.
SshdExecFails ==
    /\ sshd.pc = "exec"
    /\ sshd' = [sshd EXCEPT !.pc = "execFailed"]
    /\ UNCHANGED <<verifierVars, cosignerVars, clientVars, goroutineVars,
                   sshDir, verifyCmd, opVerify>>

InitSshd ==
    /\ IdleVerifier
    /\ NewAuthCosigner
    /\ client = NoClient
    /\ NoGoroutines
    /\ NoSshDir /\ NoVerifyCmd /\ NoOpVerify
    /\ \E output \in SshdOutputs :
         sshd = [pc |-> "exec", output |-> output, ok |-> FALSE, err |-> "nil",
                 warned |-> FALSE]

NextSshd ==
    \/ CheckOpenSSHVersion
    \/ SshdExecFails

SpecSshd == InitSshd /\ [][NextSshd]_vars

\* ------------------------------------------------------- writeKeysToSSHDir
\* The files of ~/.ssh and one call of writeKeysToSSHDir, one step per loop
\* iteration and per file written.

\* The default key files tried, in this order.
KeyFilenames == <<"id_ecdsa", "id_dsa">>

\* pubkeyPath := seckeyPath + ".pub"
PubkeyPath(seckeyPath) == seckeyPath \o ".pub"

\* A file: missing, present but not openable for reading by this user (its
\* content is "" until this call writes it), or readable with its content.
Absent == [kind |-> "absent", data |-> ""]

Unreadable == [kind |-> "unreadable", data |-> ""]

File(data) == [kind |-> "file", data |-> data]

\* What an existing .pub file may hold.
PubContents ==
    {"ecdsa AAAA openpubkey",
     "ecdsa AAAA user@host",
     "ecdsa AAAA my-openpubkey-key",
     "ecdsa AAAA my openpubkey",
     "ecdsa AAAA",
     "cert BBBB\n openpubkey"}

SeckeyFiles == {Absent, Unreadable, File("user secret key")}

PubkeyFiles == {Absent, Unreadable} \cup {File(d) : d \in PubContents}

\* The states of ~/.ssh before the call.
SshDirs ==
    {f \in [{KeyFilenames[i] : i \in 1..Len(KeyFilenames)}
             \cup {PubkeyPath(KeyFilenames[i]) : i \in 1..Len(KeyFilenames)}
               -> SeckeyFiles \cup PubkeyFiles] :
        \A i \in 1..Len(KeyFilenames) :
            /\ f[KeyFilenames[i]] \in SeckeyFiles
            /\ f[PubkeyPath(KeyFilenames[i])] \in PubkeyFiles}

\* The arguments of the call: the new secret key and the certificate.
SeckeySshPem == "opk secret key"

CertBytes == "cert CCCC\n"

RECURSIVE Split(_, _)
\* strings.Split(s, sep)
Split(s, sep) ==
    IF StringIndex(s, sep) = 0 THEN <<s>>
    ELSE <<SubSeq(s, 1, StringIndex(s, sep) - 1)>>
         \o Split(SubSeq(s, StringIndex(s, sep) + Len(sep), Len(s)), sep)

\* strings.Contains(s, substr)
Contains(s, substr) == StringIndex(s, substr) # 0

\* fileExists(fPath): os.Open gave no error, or one that is not ErrNotExist.
fileExists(files, fPath) == files[fPath] # Absent

\* Mutant of CanWriteKeys: the comment of the existing key is not looked at.
CanWriteKeysAnyComment(files, seckeyPath) ==
    IF ~fileExists(files, seckeyPath) THEN TRUE
    ELSE IF ~fileExists(files, PubkeyPath(seckeyPath)) THEN FALSE
    ELSE IF files[PubkeyPath(seckeyPath)].kind # "file" THEN FALSE
    ELSE Len(Split(files[PubkeyPath(seckeyPath)].data, " ")) = 3

\* The body of the loop of writeKeysToSSHDir: TRUE when it calls writeKeys
\* for seckeyPath, FALSE when it goes on to the next file name.
CanWriteKeys(files, seckeyPath) ==
    IF ~fileExists(files, seckeyPath) THEN TRUE
    ELSE IF ~fileExists(files, PubkeyPath(seckeyPath)) THEN FALSE
    ELSE IF files[PubkeyPath(seckeyPath)].kind # "file" THEN FALSE
    ELSE IF Len(Split(files[PubkeyPath(seckeyPath)].data, " ")) # 3 THEN FALSE
    ELSE Contains(Split(files[PubkeyPath(seckeyPath)].data, " ")[3], "openpubkey")

\* os.UserHomeDir()
SshUserHomeDir ==
    /\ sshDir.pc = "home"
    /\ IF sshDir.home = "err"
       THEN sshDir' = [sshDir EXCEPT !.pc = "done", !.err = "ErrHomeDir"]
       ELSE sshDir' = [sshDir EXCEPT !.pc = "loop"]
    /\ UNCHANGED <<verifierVars, cosignerVars, clientVars, goroutineVars,
                   sshd, verifyCmd, opVerify>>

\* One iteration of the loop over the key file names.
SshTryKeyFile ==
    /\ sshDir.pc = "loop"
    /\ sshDir.i <= Len(KeyFilenames)
    /\ IF CanWriteKeys(sshDir.files, KeyFilenames[sshDir.i])
       THEN sshDir' = [sshDir EXCEPT !.pc = "writeSeckey"]
       ELSE sshDir' = [sshDir EXCEPT !.i = @ + 1]
    /\ UNCHANGED <<verifierVars, cosignerVars, clientVars, goroutineVars,
                   sshd, verifyCmd, opVerify>>

\* The loop ended without a call of writeKeys.
SshNoKeyFileFree ==
    /\ sshDir.pc = "loop"
    /\ sshDir.i > Len(KeyFilenames)
    /\ sshDir' = [sshDir EXCEPT !.pc = "done",
                                !.err = "no default ssh key file free for openpubkey"]
    /\ UNCHANGED <<verifierVars, cosignerVars, clientVars, goroutineVars,
                   sshd, verifyCmd, opVerify>>

\* os.WriteFile(name, data, perm): the file holds data afterwards, or the
\* call fails: in OpenFile, and the file is as it was; in Write, after the
\* file was created or truncated, and the file is empty or holds a proper
\* prefix of data; or in Close, and the file holds data.  perm is applied
\* only when the file is created, so a file this user cannot open for
\* reading stays so.
WriteFileOutcomes(files, name, data) ==
    LET Written(d) == IF files[name].kind = "unreadable"
                      THEN [kind |-> "unreadable", data |-> d]
                      ELSE File(d)
    IN {[files |-> [files EXCEPT ![name] = Written(data)], err |-> e] :
           e \in {"nil", "ErrClose"}}
       \cup {[files |-> files, err |-> "ErrOpen"]}
       \cup {[files |-> [files EXCEPT ![name] = Written(SubSeq(data, 1, n))],
              err |-> "ErrWrite"] : n \in 0..(Len(data) - 1)}

\* writeKeys: the secret key is written.
SshWriteSeckey ==
    /\ sshDir.pc = "writeSeckey"
    /\ \E w \in WriteFileOutcomes(sshDir.files, KeyFilenames[sshDir.i], SeckeySshPem) :
         sshDir' = [sshDir EXCEPT !.files = w.files,
                                  !.pc = IF w.err = "nil" THEN "writePubkey" ELSE "done",
                                  !.err = w.err]
    /\ UNCHANGED <<verifierVars, cosignerVars, clientVars, goroutineVars,
                   sshd, verifyCmd, opVerify>>

\* writeKeys: the certificate, with the comment appended, is written.
SshWritePubkey ==
    /\ sshDir.pc = "writePubkey"
    /\ \E w \in WriteFileOutcomes(sshDir.files, PubkeyPath(KeyFilenames[sshDir.i]),
                                  CertBytes \o " openpubkey") :
         sshDir' = [sshDir EXCEPT !.files = w.files, !.pc = "done", !.err = w.err]
    /\ UNCHANGED <<verifierVars, cosignerVars, clientVars, goroutineVars,
                   sshd, verifyCmd, opVerify>>

InitSshDir ==
    /\ IdleVerifier
    /\ NewAuthCosigner
    /\ client = NoClient
    /\ NoGoroutines
    /\ NoSshd /\ NoVerifyCmd /\ NoOpVerify
    /\ \E files \in SshDirs, home \in {"ok", "err"} :
         sshDir = [pc |-> "home", home |-> home, files |-> files, before |-> files,
                   i |-> 1, err |-> "nil"]

writeKeysToSSHDir ==
    \/ SshUserHomeDir
    \/ SshTryKeyFile
    \/ SshNoKeyFileFree
    \/ SshWriteSeckey
    \/ SshWritePubkey

SpecSshDir == InitSshDir /\ [][writeKeysToSSHDir]_vars

\* ------------------------------------------------------- sshd verify command
\* VerifyCmd.Verify (and authorizedKeysCommand, which has the same body): the
\* command sshd runs as AuthorizedKeysCommand, one step per call it makes.

\* The user names sshd may ask about.
Usernames == {"root", "alice", "bob"}

\* The keys that may have signed the certificate.
SignatureKeys ==
    {[type |-> "ecdsa-sha2-nistp256", b64 |-> "AAAA"],
     [type |-> "ssh-rsa", b64 |-> "BBBB"]}

\* The pubkey argument: whether sshcert.NewFromAuthorizedKey parses it as a
\* certificate, whether VerifySshPktCert accepts the PK token in it, and the
\* key that signed it.
SshCerts == [parses : BOOLEAN, pktValid : BOOLEAN, SignatureKey : SignatureKeys]

\* The authorization functions: the user names each one accepts.
AuthFuncs == SUBSET Usernames

\* ssh.MarshalAuthorizedKey(key)
MarshalAuthorizedKey(key) == key.type \o " " \o key.b64 \o "\n"

\* The calls Verify makes, in program order.
VerifySteps == <<"NewFromAuthorizedKey", "VerifySshPktCert", "Auth">>

\* The error each call returns for the arguments of the command.
VerifyStepError(cmd, step) ==
    CASE step = "NewFromAuthorizedKey" ->
            IF cmd.cert.parses THEN "nil" ELSE "ErrParseCert"
      [] step = "VerifySshPktCert" ->
            IF cmd.cert.pktValid THEN "nil" ELSE "ErrVerifyPkt"
      [] step = "Auth" ->
            IF cmd.username \in cmd.Auth THEN "nil" ELSE "ErrNotAuthorized"

\* Mutant of VerifyAfter: an error of VerifySshPktCert is dropped.
VerifyAfterIgnoreVerifyErr(i, e) ==
    IF e # "nil" /\ VerifySteps[i] # "VerifySshPktCert" THEN "return"
    ELSE IF i < Len(VerifySteps) THEN "next"
    ELSE "return"

\* What Verify does after call i returned e: it returns the error, goes on
\* to the next call, or returns the authorized_keys line.
VerifyAfter(i, e) ==
    IF e # "nil" THEN "return"
    ELSE IF i < Len(VerifySteps) THEN "next"
    ELSE "return"

\* One call of Verify and what follows it.
VerifyStep ==
    /\ verifyCmd.pc = "call"
    /\ LET step == VerifySteps[verifyCmd.i]
           e == VerifyStepError(verifyCmd, step)
       IN IF VerifyAfter(verifyCmd.i, e) = "next"
          THEN verifyCmd' = [verifyCmd EXCEPT !.i = @ + 1, !.ran = Append(@, step)]
          ELSE verifyCmd' =
                  [verifyCmd EXCEPT
                      !.pc = "done",
                      !.ran = Append(@, step),
                      !.err = e,
                      !.ret = IF e # "nil" THEN ""
                              ELSE "cert-authority "
                                   \o MarshalAuthorizedKey(verifyCmd.cert.SignatureKey)]
    /\ UNCHANGED <<verifierVars, cosignerVars, clientVars, goroutineVars,
                   sshd, sshDir, opVerify>>

InitVerifyCmd ==
    /\ IdleVerifier
    /\ NewAuthCosigner
    /\ client = NoClient
    /\ NoGoroutines
    /\ NoSshd /\ NoSshDir /\ NoOpVerify
    /\ \E cert \in SshCerts, username \in Usernames, auth \in AuthFuncs :
         verifyCmd = [pc |-> "call", cert |-> cert, username |-> username,
                      Auth |-> auth, i |-> 1, ran |-> <<>>, ret |-> "", err |-> "nil"]

NextVerifyCmd == VerifyStep

SpecVerifyCmd == InitVerifyCmd /\ [][NextVerifyCmd]_vars

\* ------------------------------------------- VerifyPKToken of the providers
\* VerifyPKToken(ctx, pkt, provider, cosPk) and GithubOp.VerifyPKToken(pktJSON,
\* cosPk): one call on one PK token.  Signatures are ideal: a signature
\* verifies under a key exactly when that key made it.

githubIssuer == "https://token.actions.githubusercontent.com"

\* The PK tokens handed to VerifyPKToken: whether the CIC protected header
\* decodes, the kind of provider signature, the alg of the ID token's header,
\* the key that made the provider signature, whether the commitment claim
\* (aud for GitHub) is the hash of the CIC header, the issuer, whether the
\* ID token is expired, the CIC signature, and the cosignature (none, valid
\* under the cosigner key, or not valid under it).
OpPkts ==
    [cic : {"ok", "bad"},
     sigType : {"Gq", "Oidc", "other", "missing"},
     hdrAlg : {RS256, "ES256"},
     signedBy : {"provider", "other"},
     aud : {"commitment", "other"},
     iss : {githubIssuer, "https://evil.com/"},
     validity : {"current", "expired"},
     cicSig : {"valid", "invalid"},
     cos : {"none", "valid", "invalid"}]

\* GithubOp.PublicKey(idt): the header must say RS256; the key is the one
\* discovered for githubIssuer.
GithubPublicKey(p, discovery) ==
    IF p.hdrAlg # RS256 THEN "ErrAlg" ELSE discovery

\* jwt.Parse(idt, WithAudience(expectedAud), WithIssuer(githubIssuer),
\*           WithAcceptableSkew(5s), WithKey(RS256, rsaPubKey))
JwtParse(p) ==
    IF p.signedBy # "provider" THEN "ErrSignature"
    ELSE IF p.validity # "current" THEN "ErrExpired"
    ELSE IF p.aud # "commitment" THEN "ErrAudience"
    ELSE IF p.iss # githubIssuer THEN "ErrIssuer"
    ELSE "nil"

\* The GQ and the non-GQ branch of GithubOp.VerifyPKToken.
GithubSignatureChecks(p) ==
    IF p.sigType = "Gq"
    THEN <<Check("sv.Verify", VerifyGQ(p)),
           Check("aud", IF p.aud # "commitment" THEN "ErrAudMismatch" ELSE "nil")>>
    ELSE <<Check("jwt.Parse", JwtParse(p))>>

\* GithubOp.VerifyPKToken(pktJSON, cosPk); pkt.OpSigGQ is sigType = "Gq".
GithubVerifyPKToken(p, discovery, cosPk) ==
    RunChecks(<<Check("Base64DecodeForJWT", IF p.cic = "ok" THEN "nil" ELSE "ErrCicPH"),
                Check("PublicKey", GithubPublicKey(p, discovery))>>
              \o GithubSignatureChecks(p)
              \o <<Check("VerifyCicSig", VerifyCicSig(p))>>
              \o CosignerChecks(p, cosPk))

OpReturn(r, value) ==
    opVerify' = [opVerify EXCEPT !.pc = "done", !.err = r.err, !.ran = r.ran,
                                 !.ret = IF r.err = "nil" THEN value ELSE "nil"]

\* A call of VerifyPKToken.
OpVerifyPKToken ==
    /\ opVerify.pc = "call"
    /\ opVerify.fn = "VerifyPKToken"
    /\ OpReturn(VerifyPKToken(opVerify.pkt, opVerify.provider, opVerify.cosPk), "ok")
    /\ UNCHANGED <<verifierVars, cosignerVars, clientVars, goroutineVars,
                   sshd, sshDir, verifyCmd>>

\* A call of GithubOp.VerifyPKToken; discovery and the JWKS fetch may fail.
OpGithubVerifyPKToken ==
    /\ opVerify.pc = "call"
    /\ opVerify.fn = "GithubOp.VerifyPKToken"
    /\ \E discovery \in {"nil", "ErrDiscover"} :
         OpReturn(GithubVerifyPKToken(opVerify.pkt, discovery, opVerify.cosPk), "cicPH")
    /\ UNCHANGED <<verifierVars, cosignerVars, clientVars, goroutineVars,
                   sshd, sshDir, verifyCmd>>

NewOpCall(fn, p, provider, cosPk) ==
    [pc |-> "call", fn |-> fn, pkt |-> p, provider |-> provider, cosPk |-> cosPk,
     ran |-> <<>>, err |-> "nil", ret |-> "nil"]

InitOpVerify ==
    /\ IdleVerifier
    /\ NewAuthCosigner
    /\ client = NoClient
    /\ NoGoroutines
    /\ NoSshd /\ NoSshDir /\ NoVerifyCmd
    /\ \E p \in OpPkts, cosPk \in CosPks :
         \/ \E provider \in OpenIdProviders :
               opVerify = NewOpCall("VerifyPKToken", p, provider, cosPk)
         \/ /\ p.sigType \in {"Gq", "Oidc"}
            /\ opVerify = NewOpCall("GithubOp.VerifyPKToken", p,
                                    [PublicKey |-> "nil", VerifyCICHash |-> "nil",
                                     VerifyNonGQSig |-> "nil"],
                                    cosPk)

NextOpVerify ==
    \/ OpVerifyPKToken
    \/ OpGithubVerifyPKToken

SpecOpVerify == InitOpVerify /\ [][NextOpVerify]_vars

\* ------------------------------------------------- properties: VerifyProvider

SanityErrors ==
    {"ErrGQCommitmentRequiresGQOnly", "ErrGQCommitmentRequiresEmptyClaim",
     "ErrGQCommitmentAudIsClientID"}

AudienceErrors == {"ErrAudience", "ErrMissingAudience"}

\* Errors of the provider-signature step (verifyGQSig, key discovery, jws.Verify).
SignatureErrors ==
    {"ErrNotGQ", "ErrGQHeaders", "ErrGQOriginalAlg", "ErrIssuerMissing",
     "ErrIssuerMismatch", "ErrKeyDiscovery", "ErrNotRSAKey", "ErrSignatureInvalid"}

\* C1: with GQCommitment off, a token whose audience check and provider
\* signature check have passed and whose CIC is well formed and not badly
\* signed is accepted exactly when the payload holds the configured
\* commitment claim and its value is a string equal to cic.Hash().
C1_CommitmentClaimBinding ==
    (/\ pc = "done"
     /\ ~v.GQCommitment
     /\ sigVerified
     /\ pkt.cic = "ok"
     /\ pkt.cicSig # "invalid")
    => (result = "ok" <=>
          /\ v.commitmentClaim \in ClaimNames
          /\ pkt.claims[v.commitmentClaim].t = "string"
          /\ pkt.claims[v.commitmentClaim].s = pkt.cicHash)

\* A verifier configured with claim "evil" has rejected a token committed
\* under "nonce".
C1_Witness ==
    /\ pc = "done"
    /\ ~v.GQCommitment
    /\ sigVerified
    /\ v.commitmentClaim = "evil"
    /\ pkt.cic = "ok"
    /\ pkt.claims.nonce = JString(pkt.cicHash)
    /\ pkt.claims.evil = JAbsent
    /\ result = "error"
    /\ err = "ErrMissingCommitmentClaim"

\* The audience step has run and let the call go on.
AudiencePassed ==
    /\ pkt.aud.t # "unread"
    /\ err \notin AudienceErrors
    /\ result # "panic"

\* C2: with SkipClientIDCheck false, a string aud passes the audience check
\* iff it equals ClientID, a list aud passes iff ClientID is one of its
\* elements, and a payload without aud fails the check.
C2_AudienceRule ==
    (~v.SkipClientIDCheck /\ pkt.aud.t # "unread")
    => /\ pkt.aud.t = "string" => (AudiencePassed <=> pkt.aud.s = v.ClientID)
       /\ pkt.aud.t = "list"
            => (AudiencePassed
                  <=> \E i \in 1..Len(pkt.aud.l) : pkt.aud.l[i] = JString(v.ClientID))
       /\ pkt.aud.t = "absent" => (pc = "done" /\ err = "ErrMissingAudience")

\* C3: a token whose provider algorithm is neither RS256 nor GQ256 is never
\* accepted.
C3_OtherAlgorithmRejected ==
    (pc = "done" /\ pkt.alg \notin {"unread", RS256, GQ256}) => result # "ok"

\* C4: the commitment binding is evaluated only after a provider signature
\* verification has succeeded, so a token with a corrupted provider
\* signature never gets a verdict from the commitment step.
C4_SignatureBeforeCommitment ==
    (pkt.cic # "unread") => sigVerified

\* C5: a token with an RS256 or GQ256 provider signature whose iss differs
\* from the verifier's issuer is never accepted.
C5_IssuerMismatchRejected ==
    (pc = "done" /\ pkt.alg \in {RS256, GQ256} /\ pkt.iss # v.issuer) => result # "ok"

\* C7: an RS256 or GQ256 token is accepted only if the key finder was asked
\* and the Op signature was made with the RSA key it returned; when the
\* finder fails or returns another key the call ends with an error of the
\* signature step.
C7_SignatureUnderFinderKey ==
    (pc = "done" /\ pkt.alg \in {RS256, GQ256})
    => /\ result = "ok" => (foundKey \in RSAKeys /\ pkt.signedBy = foundKey)
       /\ (foundKey # "notcalled" /\ pkt.signedBy # foundKey)
            => (result = "error"
                /\ err \in {"ErrKeyDiscovery", "ErrNotRSAKey", "ErrSignatureInvalid"})

\* A GQ256 token signed with K2 has been accepted with K2 discovered.
C7_Witness ==
    /\ pc = "done"
    /\ result = "ok"
    /\ pkt.alg = GQ256
    /\ pkt.signedBy = "K2"
    /\ foundKey = "K2"

\* C8: with GQOnly set, a token whose provider algorithm is not GQ256 is
\* rejected before any key discovery or signature verification, and an
\* RS256 token is rejected with ErrNonGQUnsupported.
C8_GQOnlyRejectsNonGQ ==
    (pc = "done" /\ v.GQOnly /\ pkt.alg \notin {"unread", GQ256})
    => /\ result = "error"
       /\ foundKey = "notcalled"
       /\ ~sigVerified
       /\ pkt.signedBy = "unread"
       /\ pkt.alg = RS256 => err = "ErrNonGQUnsupported"

C8_Witness ==
    /\ pc = "done"
    /\ v.GQOnly
    /\ ~v.GQCommitment
    /\ pkt.alg = RS256
    /\ err = "ErrNonGQUnsupported"

\* C9 as stated: under GQCommitment the sanity step passes exactly when
\* GQOnly is set, commitmentClaim is empty and SkipClientIDCheck is false.
C9_SanityRequiresClientIDCheck ==
    (v.GQCommitment /\ pc # "sanity")
    => (err \notin SanityErrors
          <=> (v.GQOnly /\ v.commitmentClaim = "" /\ ~v.SkipClientIDCheck))

\* C9 amended: under GQCommitment the sanity step passes exactly when
\* GQOnly is set, commitmentClaim is empty and SkipClientIDCheck is true;
\* otherwise the call ends there with the sanity error.
C9_SanityRequiresSkipClientIDCheck ==
    (v.GQCommitment /\ pc # "sanity")
    => IF v.GQOnly /\ v.commitmentClaim = "" /\ v.SkipClientIDCheck
       THEN err \notin SanityErrors
       ELSE pc = "done" /\ result = "error" /\ err \in SanityErrors
                /\ pkt.aud.t = "unread"

\* Under GQCommitment the sanity step has passed and verification goes on.
C9_Witness ==
    /\ v.GQCommitment
    /\ v.GQOnly
    /\ v.commitmentClaim = ""
    /\ v.SkipClientIDCheck
    /\ pc = "algorithm"

\* The verifier of the GitLab example.
GitLabVerifier ==
    /\ v.GQCommitment
    /\ v.GQOnly
    /\ v.SkipClientIDCheck
    /\ v.commitmentClaim = ""

\* C10: under the GitLab configuration a GQ256 token on which neither the GQ
\* signature step nor the CIC step reports a failure is accepted exactly
\* when aud is a string with the OPENPUBKEY-PKTOKEN: prefix and the cic
\* value of the GQ header is a string equal to cic.Hash(), whatever the
\* payload claims hold.
C10_GQCommitmentBinding ==
    (/\ pc = "done"
     /\ GitLabVerifier
     /\ pkt.alg \in {"unread", GQ256}
     /\ err \notin SignatureErrors \cup {"ErrCicValues", "ErrCicSignature"})
    => (result = "ok" <=>
          /\ pkt.aud.t = "string"
          /\ Len(pkt.aud.s) >= Len("OPENPUBKEY-PKTOKEN:")
          /\ SubSeq(pkt.aud.s, 1, Len("OPENPUBKEY-PKTOKEN:")) = "OPENPUBKEY-PKTOKEN:"
          /\ pkt.cicHdr.t = "string"
          /\ pkt.cicHdr.s = pkt.cicHash)

\* A token has been accepted under the GitLab configuration although its
\* nonce claim is not the commitment.
C10_Witness ==
    /\ pc = "done"
    /\ GitLabVerifier
    /\ result = "ok"
    /\ pkt.alg = GQ256
    /\ pkt.claims.nonce # JString(pkt.cicHash)

\* C11: VerifyProvider accepts a PK token only if the CIC was decoded and the
\* CIC JWS verifies under the upk of its protected header; a call that reaches
\* the CIC step (provider signature verified, commitment matching) with a CIC
\* signature that does not verify ends with that error.
C11_CicSignatureRequired ==
    /\ (result = "ok" => pkt.cic = "ok" /\ pkt.cicSig = "valid")
    /\ (pkt.cicSig = "invalid" =>
            pc = "done" /\ result = "error" /\ err = "ErrCicSignature")

\* A token with a verified provider signature and a matching commitment is
\* rejected for its CIC signature.
C11_Witness ==
    /\ pc = "done"
    /\ sigVerified
    /\ VerifyCommitment(v, pkt) = "nil"
    /\ pkt.cicSig = "invalid"
    /\ result = "error"
    /\ err = "ErrCicSignature"

\* C22: without SkipExpirationCheck an accepted token is neither expired nor
\* issued in the future.
C22_ExpirationChecked ==
    (result = "ok" /\ ~v.SkipExpirationCheck) => pkt.validity = "current"

\* Errors of verifyCommitment.
CommitmentErrors ==
    {"ErrCicValues", "ErrAudPrefixMissing", "ErrAudPrefix", "ErrMissingGQCommitment",
     "ErrMissingCommitmentClaim", "ErrCommitmentMismatch"}

\* The aud claim is a string with the OPENPUBKEY-PKTOKEN: prefix.
AudHasPrefix(aud) ==
    aud.t = "string" /\ HasPrefix(aud.s, AudPrefixForGQCommitment)

\* C25: the checks are reported in the order sanity, audience (under
\* GQCommitment with the aud prefix), provider signature, commitment,
\* issuer, CIC signature: under GQCommitment a call that passed the sanity
\* check on a token whose aud lacks the prefix ends with the audience
\* (prefix) error, whatever the provider signature of the GQ256 token is,
\* and an issuer error is reported only after the provider signature has
\* verified.
C25_CheckOrder ==
    /\ (/\ result = "error"
        /\ v.GQCommitment
        /\ err \notin SanityErrors
        /\ pkt.aud.t \in {"string", "absent"}
        /\ ~AudHasPrefix(pkt.aud)
        /\ pkt.alg = GQ256)
          => err \in AudienceErrors \cup {"ErrAudPrefixMissing", "ErrAudPrefix"}
    /\ (result = "error" /\ err \in {"ErrIssuerMissing", "ErrIssuerMismatch"})
          => sigVerified

\* C29: VerifyProvider ends with success or an error, never with a panic.
C29_NeverAborts ==
    result # "panic"

\* ---------------------------------------------------- properties: AuthCosigner

\* C6: an authcode for which RedeemAuthcode has succeeded is no longer in
\* AuthCodeMap (so no later RedeemAuthcode with it can succeed).
C6_AuthcodeSingleUse ==
    \A c \in redeemed : c \notin DOMAIN AuthCodeMap

\* C13: every AuthState in AuthStateMap was created for a PK token that the
\* provider verification pipeline accepts.
C13_InitAuthVerifiesProvider ==
    \A id \in DOMAIN AuthStateMap : AuthStateMap[id].Pkt.opValid

\* C14: an InitAuth call whose message was signed more than 2 minutes before
\* or after the cosigner's clock does not succeed and changes neither the
\* counter nor AuthStateMap; a message signed within 2 minutes (inclusive) is
\* not refused for its timestamp.
C14_TimestampWindow ==
    [][out'.op = "InitAuth" /\ now' = now =>
          LET ts == out'.TimeSigned IN
          IF now - ts > 2 \/ ts - now > 2
          THEN /\ out'.res # "ok"
               /\ UNCHANGED <<AuthIdIter, AuthStateMap>>
          ELSE out'.err \notin {"ErrTooOld", "ErrFuture"}]_vars

\* A properly signed message from the future has been refused.
C14_Witness ==
    /\ out.op = "InitAuth"
    /\ out.err = "ErrFuture"
    /\ out.TimeSigned - now > 2
    /\ AuthIdIter = 0

\* C15: a session opened by InitAuth more than 2 minutes ago is no longer in
\* AuthStateMap, and after a successful RedeemAuthcode the authcode and the
\* AuthState of the session are gone from the maps.
C15_SessionsExpire ==
    /\ (out.op = "InitAuth" /\ out.res = "ok" /\ now - out.at > 2
            => out.authID \notin DOMAIN AuthStateMap)
    /\ (out.op = "RedeemAuthcode" /\ out.res = "ok"
            => /\ out.sig.payload \notin DOMAIN AuthCodeMap
               /\ out.cos.AuthID \notin DOMAIN AuthStateMap)

\* The auth_ids for which IssueSignature has completed.
IssuedAuthIDs ==
    {AuthCodeMap[c] : c \in redeemed \cap DOMAIN AuthCodeMap}

\* C16: an AuthState has SigIssued = TRUE exactly when IssueSignature has
\* completed for its auth_id.
C16_SigIssuedTracksIssuance ==
    \A id \in DOMAIN AuthStateMap :
        AuthStateMap[id].SigIssued <=> (id \in IssuedAuthIDs)

\* C19: a cosignature returned by RedeemAuthcode carries the auth_id the
\* authcode was issued for, the redirect URI and nonce of that session, and
\* the cosigner's issuer, key id and algorithm; the session keeps the
\* redirect URI and nonce of its InitMFAAuth message, and the authcode keeps
\* its auth_id.
C19_CosignerClaims ==
    /\ [](/\ (out.op = "InitAuth" /\ out.res = "ok"
                => /\ AuthStateMap[out.authID].RedirectURI = out.session.ruri
                   /\ AuthStateMap[out.authID].Nonce = out.session.nonce)
          /\ (out.op = "NewAuthcode" => AuthCodeMap[out.authCode] = out.authID)
          /\ (out.op = "RedeemAuthcode" /\ out.res = "ok"
                => LET id == AuthCodeMap[out.sig.payload] IN
                   /\ out.cos.AuthID = id
                   /\ out.cos.RedirectURI = AuthStateMap[id].RedirectURI
                   /\ out.cos.Nonce = AuthStateMap[id].Nonce
                   /\ out.cos.Iss = CosignerIssuer
                   /\ out.cos.KeyID = CosignerKeyID
                   /\ out.cos.Algorithm = CosignerAlg))
    /\ [][/\ \A id \in DOMAIN AuthStateMap \cap DOMAIN AuthStateMap' :
               AuthStateMap'[id] = AuthStateMap[id]
          /\ \A c \in DOMAIN AuthCodeMap \cap DOMAIN AuthCodeMap' :
               AuthCodeMap'[c] = AuthCodeMap[c]]_vars

\* With two sessions open, the authcode of the first one has been redeemed.
C19_Witness ==
    /\ out.op = "RedeemAuthcode"
    /\ out.res = "ok"
    /\ AuthIdIter = 2
    /\ out.cos.AuthID = 1
    /\ AuthStateMap[1].Nonce # AuthStateMap[2].Nonce

\* C20: RedeemAuthcode succeeds only for a well-formed JWS whose payload is
\* an authcode stored by NewAuthcode and whose signer is the upk of the PK
\* token stored for that authcode's auth_id, and the cosignature is on that
\* token; an unknown authcode or another signer gives an error.
C20_RedeemRequiresAuthcodeAndSignature ==
    /\ [](out.op = "RedeemAuthcode" =>
            LET c == out.sig.payload IN
            /\ out.res = "ok" =>
                  /\ out.sig.wellformed
                  /\ c \in DOMAIN AuthCodeMap
                  /\ AuthCodeMap[c] \in DOMAIN AuthStateMap
                  /\ out.sig.signer = AuthStateMap[AuthCodeMap[c]].Pkt.upk
                  /\ out.cos.Pkt = AuthStateMap[AuthCodeMap[c]].Pkt
            /\ c \notin DOMAIN AuthCodeMap => out.res = "error"
            /\ (/\ c \in DOMAIN AuthCodeMap
                /\ AuthCodeMap[c] \in DOMAIN AuthStateMap
                /\ out.sig.signer # AuthStateMap[AuthCodeMap[c]].Pkt.upk)
                  => out.res = "error")
    /\ [][DOMAIN AuthCodeMap' # DOMAIN AuthCodeMap =>
             /\ out'.op = "NewAuthcode"
             /\ DOMAIN AuthCodeMap' = DOMAIN AuthCodeMap \cup {out'.authCode}]_vars

\* A well-formed JWS over a stored authcode, signed with another key, has
\* been refused.
C20_Witness ==
    /\ out.op = "RedeemAuthcode"
    /\ out.sig.wellformed
    /\ out.sig.payload \in DOMAIN AuthCodeMap
    /\ AuthCodeMap[out.sig.payload] \in DOMAIN AuthStateMap
    /\ out.sig.signer # AuthStateMap[AuthCodeMap[out.sig.payload]].Pkt.upk
    /\ out.res = "error"
    /\ out.err = "ErrSignature"

\* C28: every authcode in AuthCodeMap maps to an auth_id that has an entry in
\* AuthStateMap, and RedeemAuthcode never dereferences a missing AuthState.
C28_AuthcodesNameSessions ==
    /\ \A c \in DOMAIN AuthCodeMap : AuthCodeMap[c] \in DOMAIN AuthStateMap
    /\ (out.op = "RedeemAuthcode" => out.res # "panic")

\* C30: an InitAuth or RedeemAuthcode call that returns an error changes
\* neither the auth_id counter nor AuthStateMap nor AuthCodeMap.
C30_FailedCallsChangeNothing ==
    [][(/\ out'.op \in {"InitAuth", "RedeemAuthcode"}
        /\ out'.res = "error"
        /\ now' = now)
          => UNCHANGED <<AuthIdIter, AuthStateMap, AuthCodeMap>>]_vars

\* With one session open, an InitAuth call for a token with a bad aud has
\* been refused.
C30_Witness ==
    /\ out.op = "InitAuth"
    /\ out.res = "error"
    /\ out.err = "ErrAud"
    /\ AuthIdIter = 1
    /\ DOMAIN AuthStateMap = {1}

\* ---------------------------------------------------- properties: OidcAuth

\* C12: OidcAuth requests the ID token with nonce = cic.Hash(), signs the CIC
\* over the ID token it got, assembles the PK token from the two, and returns
\* the PK token only after VerifyPKToken succeeded on it; the statements run
\* in program order, and a failing statement ends the call with an error and
\* no PK token (a panic of VerifyPKToken ends it with no PK token either).
C12_IssuanceEndsWithVerification ==
    /\ client.ran = SubSeq(OidcSteps, 1, Len(client.ran))
    /\ (client.requested # "none" => client.requested = CicHash(client.cic))
    /\ (client.cicToken # NoCicToken =>
           client.cicToken.cic = client.cic /\ client.cicToken.over = client.idToken)
    /\ (client.pkt # NoPKToken =>
           client.pkt = [op |-> client.idToken, cicTok |-> client.cicToken])
    /\ (client.ret # "nil" =>
           /\ client.pc = "done"
           /\ client.verified = "ok"
           /\ client.ran = OidcSteps
           /\ client.err = "nil")
    /\ (client.err # "nil" => client.pc = "done" /\ client.ret = "nil")
    /\ (client.pc = "done" => (client.err # "nil") # (client.ret # "nil"))
    /\ (client.pc = "panicked" =>
           /\ client.ran = OidcSteps
           /\ client.verified = "failed"
           /\ client.ret = "nil")

\* The OP answered with another nonce: the assembled token fails the final
\* verification and no PK token is returned.
C12_Witness ==
    /\ client.pc = "done"
    /\ client.ran = OidcSteps
    /\ client.verified = "failed"
    /\ client.idToken.nonce # client.requested
    /\ client.ret = "nil"
    /\ client.err = "ErrCICHash"

\* ------------------------------------- properties: AuthCosigner, concurrent

\* C17: no two goroutines are at a statement that reads or writes
\* AuthStateMap or AuthCodeMap at the same time.
C17_MapAccessMutex ==
    \A g, h \in Goroutines :
        g # h => ~(gpc[g] \in MapAccessPcs /\ gpc[h] \in MapAccessPcs)

\* The auth_ids obtained from CreateAuthID by InitAuth calls that have not
\* returned yet.
AuthIDsInFlight(gs) ==
    {gloc[g].authID : g \in {h \in gs : gpc[h] = "storeAuthState"}}

\* C18: every CreateAuthID step increases the counter by exactly one and
\* obtains the new value, nothing else changes the counter; the auth_ids
\* obtained by calls under way differ from one another, from the auth_id the
\* last call returned and from every key of AuthStateMap, and none exceeds
\* the counter (so no later call obtains one of them).
C18_AuthIdsUnique ==
    /\ [](/\ \A g \in Goroutines :
               gpc[g] = "storeAuthState" =>
                  /\ gloc[g].authID \in 1..AuthIdIter
                  /\ gloc[g].authID \notin DOMAIN AuthStateMap
                  /\ gloc[g].authID \notin AuthIDsInFlight(Goroutines \ {g})
                  /\ (out.op = "InitAuth" /\ out.res = "ok" => out.authID # gloc[g].authID)
          /\ DOMAIN AuthStateMap \subseteq 1..AuthIdIter
          /\ (out.op = "InitAuth" /\ out.res = "ok" => out.authID \in 1..AuthIdIter))
    /\ [][/\ \A g \in Goroutines :
               gpc[g] = "createAuthID" /\ gpc'[g] = "storeAuthState" =>
                  /\ AuthIdIter' = AuthIdIter + 1
                  /\ gloc'[g].authID = AuthIdIter'
          /\ AuthIdIter' # AuthIdIter =>
               /\ AuthIdIter' = AuthIdIter + 1
               /\ \E g \in Goroutines :
                     gpc[g] = "createAuthID" /\ gpc'[g] = "storeAuthState"]_vars

\* Two InitAuth calls are between CreateAuthID and the map write at once.
C18_Witness ==
    /\ \A g \in Goroutines : gpc[g] = "storeAuthState"
    /\ AuthIDsInFlight(Goroutines) = {1, 2}

\* ---------------------------------------------- properties: OpenSSH version

RECURSIVE ParseNat(_)
\* The number a string of digits denotes.
ParseNat(s) ==
    IF s = "" THEN 0
    ELSE ParseNat(SubSeq(s, 1, Len(s) - 1)) * 10 + (Byte(CharAt(s, Len(s))) - Byte("0"))

\* The numeric version at the head of the `sshd -V` output, after the
\* OpenSSH_ prefix.
SshdVersion(output) ==
    FindStringSubmatch(TrimPrefix(SplitFirst(output, ", "), "OpenSSH_"))

\* Major and minor number of a numeric version (minor 0 when there is none).
VersionMajor(ver) == ParseNat(SubSeq(ver, 1, DigitsEnd(ver, 1) - 1))

VersionMinor(ver) ==
    LET dot == DigitsEnd(ver, 1)
    IN IF dot > Len(ver) THEN 0
       ELSE ParseNat(SubSeq(ver, dot + 1, DigitsEnd(ver, dot + 1) - 1))

\* C24: isOpenSSHVersion8Dot1OrGreater returns true exactly when the numeric
\* version of the output is at least 8.1 as major.minor numbers, and an error
\* exactly when the output has no leading numeric version.
C24_VersionAtLeast8Dot1 ==
    sshd.pc = "done" =>
        LET m == SshdVersion(sshd.output) IN
        /\ (sshd.err # "nil") <=> ~m.matched
        /\ sshd.ok <=> /\ m.matched
                       /\ \/ VersionMajor(m.group) > 8
                          \/ VersionMajor(m.group) = 8 /\ VersionMinor(m.group) >= 1

\* ------------------------------------------- properties: writeKeysToSSHDir

\* The .pub companion of a secret-key file exists, splits into exactly three
\* space-separated fields and has a comment containing "openpubkey".
GeneratedByOpenpubkey(files, seckeyPath) ==
    LET pub == files[PubkeyPath(seckeyPath)] IN
    /\ pub.kind = "file"
    /\ Len(Split(pub.data, " ")) = 3
    /\ Contains(Split(pub.data, " ")[3], "openpubkey")

\* A path writeKeysToSSHDir may write to: no secret key is there, or the one
\* there was generated by openpubkey.
Eligible(files, seckeyPath) ==
    files[seckeyPath] = Absent \/ GeneratedByOpenpubkey(files, seckeyPath)

\* The positions in KeyFilenames of the eligible paths.
EligibleKeys(files) ==
    {i \in 1..Len(KeyFilenames) : Eligible(files, KeyFilenames[i])}

\* C26: an existing secret-key file changes only if its .pub companion marks
\* it as generated by openpubkey; a step changes only the files of the first
\* eligible of id_ecdsa, id_dsa; a call that found no eligible path ends with
\* an error and all files as they were, and a call that ends without error
\* has written both files of the first eligible path.
C26_NoForeignKeyOverwritten ==
    /\ [][\A i \in 1..Len(KeyFilenames) :
            LET sec == KeyFilenames[i]
                pub == PubkeyPath(sec)
            IN /\ (sshDir'.files[sec] # sshDir.files[sec] /\ sshDir.files[sec] # Absent)
                     => GeneratedByOpenpubkey(sshDir.files, sec)
               /\ (sshDir'.files[sec] # sshDir.files[sec]
                      \/ sshDir'.files[pub] # sshDir.files[pub])
                     => /\ i \in EligibleKeys(sshDir.before)
                        /\ \A j \in EligibleKeys(sshDir.before) : i <= j]_vars
    /\ [](sshDir.pc = "done" =>
            /\ EligibleKeys(sshDir.before) = {}
                 => sshDir.err # "nil" /\ sshDir.files = sshDir.before
            /\ sshDir.err = "nil" =>
                 \E i \in EligibleKeys(sshDir.before) :
                    /\ \A j \in EligibleKeys(sshDir.before) : i <= j
                    /\ sshDir.files[KeyFilenames[i]].data = SeckeySshPem
                    /\ sshDir.files[PubkeyPath(KeyFilenames[i])].data =
                          CertBytes \o " openpubkey"
                    /\ \A path \in DOMAIN sshDir.files :
                          IF path \in {KeyFilenames[i], PubkeyPath(KeyFilenames[i])}
                          THEN /\ sshDir.files[path].kind # "absent"
                               /\ sshDir.files[path].kind = "unreadable"
                                     <=> sshDir.before[path].kind = "unreadable"
                          ELSE sshDir.files[path] = sshDir.before[path])

\* id_ecdsa holds a key of the user and was skipped; id_dsa, generated by
\* openpubkey earlier, has been overwritten with the new key.
C26_Witness ==
    /\ sshDir.pc = "done"
    /\ sshDir.err = "nil"
    /\ sshDir.before["id_ecdsa"] = File("user secret key")
    /\ sshDir.before["id_ecdsa.pub"] = File("ecdsa AAAA user@host")
    /\ sshDir.files["id_ecdsa"] = sshDir.before["id_ecdsa"]
    /\ sshDir.before["id_dsa"] = File("user secret key")
    /\ sshDir.before["id_dsa.pub"] = File("cert BBBB\n openpubkey")
    /\ sshDir.files["id_dsa"] = File(SeckeySshPem)

\* ------------------------------------------ properties: sshd verify command

\* C23: Verify returns the authorized_keys line ("cert-authority " and the
\* key that signed the certificate) exactly when the certificate parses, its
\* PK token verifies and the authorization function accepts the user name;
\* the authorization function is called only after the PK token has
\* verified, and every failure gives an empty string and an error.
C23_VerifyCommand ==
    LET cmd == verifyCmd
        good == /\ cmd.cert.parses
                /\ cmd.cert.pktValid
                /\ cmd.username \in cmd.Auth
    IN /\ cmd.ran = SubSeq(VerifySteps, 1, Len(cmd.ran))
       /\ (\E i \in 1..Len(cmd.ran) : cmd.ran[i] = "Auth")
             => cmd.cert.parses /\ cmd.cert.pktValid
       /\ cmd.pc = "done" =>
             /\ good <=> cmd.ret # ""
             /\ good => /\ cmd.ret = "cert-authority "
                                     \o cmd.cert.SignatureKey.type \o " "
                                     \o cmd.cert.SignatureKey.b64 \o "\n"
                        /\ cmd.err = "nil"
             /\ ~good => cmd.ret = "" /\ cmd.err # "nil"

\* A certificate that parses but holds a PK token that does not verify, for
\* a user the authorization function would accept: the command failed and
\* the authorization function was not called.
C23_Witness ==
    /\ verifyCmd.pc = "done"
    /\ verifyCmd.cert.parses
    /\ ~verifyCmd.cert.pktValid
    /\ verifyCmd.username \in verifyCmd.Auth
    /\ verifyCmd.ran = <<"NewFromAuthorizedKey", "VerifySshPktCert">>
    /\ verifyCmd.ret = ""
    /\ verifyCmd.err = "ErrVerifyPkt"

\* ---------------------------------------------- properties: VerifyPKToken

\* The verdict of the call under way for the same arguments except that the
\* PK token has cosignature cos.
OpVerdictWithCos(cos) ==
    LET p == [opVerify.pkt EXCEPT !.cos = cos] IN
    IF opVerify.fn = "VerifyPKToken"
    THEN {VerifyPKToken(p, opVerify.provider, opVerify.cosPk).err}
    ELSE {GithubVerifyPKToken(p, discovery, opVerify.cosPk).err :
             discovery \in {"nil", "ErrDiscover"}}

\* C21: with a cosigner key VerifyPKToken (of the client and of GithubOp)
\* rejects every PK token without a cosignature valid under that key; with
\* no cosigner key the cosignature is not examined and the verdict is the
\* one for the same token with any other cosignature or none.
C21_CosignatureMandatoryIffKey ==
    opVerify.pc = "done" =>
        /\ (opVerify.cosPk # "nil" /\ opVerify.pkt.cos # "valid") => opVerify.err # "nil"
        /\ opVerify.cosPk = "nil" =>
              /\ \A i \in 1..Len(opVerify.ran) : opVerify.ran[i] # "VerifyCosSig"
              /\ \A cos \in {"none", "valid", "invalid"} :
                    opVerify.err \in OpVerdictWithCos(cos)
        /\ (opVerify.cosPk # "nil" /\ opVerify.err = "nil") =>
              opVerify.ran[Len(opVerify.ran)] = "VerifyCosSig"

\* A token good in every other respect, with a cosignature that is not valid
\* under the configured cosigner key, has been rejected by the cosignature
\* check.
C21_Witness ==
    /\ opVerify.pc = "done"
    /\ opVerify.cosPk = "key"
    /\ opVerify.pkt.cos = "invalid"
    /\ opVerify.pkt.cicSig = "valid"
    /\ opVerify.ran[Len(opVerify.ran)] = "VerifyCosSig"
    /\ opVerify.err = "ErrCosSig"

\* C27: GithubOp.VerifyPKToken returns the CIC header claims only if the
\* provider signature verifies under the key of the GitHub issuer, aud is
\* the commitment, the issuer is the GitHub issuer and the CIC signature
\* verifies.
C27_GithubVerifyPKToken ==
    (/\ opVerify.pc = "done"
     /\ opVerify.fn = "GithubOp.VerifyPKToken"
     /\ opVerify.ret # "nil")
       => /\ opVerify.pkt.signedBy = "provider"
          /\ opVerify.pkt.aud = "commitment"
          /\ opVerify.pkt.cicSig = "valid"
          /\ opVerify.pkt.iss = githubIssuer

====
